---- MODULE Spec2Model ----
(***************************************************************************)
(* jest-swag: the declaration DSL (path / operation / response ...), the   *)
(* spec accumulator (addApiSpec and its debounced file persistence) and    *)
(* the OpenAPI document generator, modelled as one state machine.          *)
(*                                                                         *)
(* JavaScript values are tagged records: [t |-> "undefined"],              *)
(* [t |-> "str", v |-> "x"], [t |-> "obj", v |-> <<[k |-> .., v |-> ..]>>]. *)
(* Arrays and objects that the code shares by reference (the parameters    *)
(* array and the responses object of the cursor) live in heaps and are     *)
(* named by their index; 0 is `undefined`.                                 *)
(***************************************************************************)
EXTENDS Integers, Sequences, FiniteSets, TLC

VARIABLES
  currentApiSpec,        \* the DSL cursor (let currentApiSpec)
  scopeStack,            \* the originalSpec copies of the open path/operation calls
  paramHeap,             \* parameters arrays, by reference
  respHeap,              \* responses objects of the cursor, by reference
  tests,                 \* the it() closures registered by response()
  phase,                 \* "declare" (describe callbacks run) or "run" (test bodies run)
  testIdx,               \* number of registered tests the runner has gone through
  apiSpecs,              \* export const apiSpecs
  specCache,             \* const specCache = new Map()
  saveTimeout,           \* let saveTimeout holds a timer (is not null)
  timers,                \* the timer callbacks waiting in the event loop
  lastFileRead,          \* let lastFileRead
  enableFilePersistence,
  isCleaningUp,
  specsFile,             \* content of SPECS_FILE, or NoFile
  document,              \* the last result of generateDocument, or NoDocument
  documentCache,         \* OpenAPIGenerator.documentCache, or NoCache
  declaredSpecs,         \* history: the collection as it was when the declaration phase ended
  declaredOps,           \* history: one record per operation() call
  nCalls,                \* number of DSL calls made so far
  lastSubmit,            \* history: the last spec handed to addApiSpec and by whom
  pid,                   \* process.pid of the process that runs the tests
  schemaCache,           \* const schemaCache = new WeakMap(): the schemas of the objects that live on
  cli,                   \* the process that runs `jest-swag generate`
  hist                   \* history: the last two calls of generateDocument

vars == <<currentApiSpec, scopeStack, paramHeap, respHeap, tests, phase, testIdx,
          apiSpecs, specCache, saveTimeout, timers, lastFileRead, enableFilePersistence, isCleaningUp,
          specsFile, document, documentCache, declaredSpecs, declaredOps, pid, schemaCache, cli, hist, nCalls, lastSubmit>>

(***************************************************************************)
(* Bounds                                                                  *)
(***************************************************************************)
MaxCalls == 4          \* DSL calls in one test file (Spec)
DeclMaxCalls == 5      \* DSL calls in one test file (DeclSpec)
SkipMaxCalls == 6      \* DSL calls in one test file (SkipSpec)
MaxTests == 3          \* response() calls in one test file
MaxParams == 2         \* parameter() calls in one test file
MaxCleanups == 1       \* delayed deletes of cleanupTempSpecFile waiting at one time
MaxCaptures == 2       \* response() calls in a test file whose tests capture results
MaxNesting == 12       \* objects nested one in the other above a value

(***************************************************************************)
(* JSON values and JSON.stringify(x).length                                *)
(***************************************************************************)
Undefined == [t |-> "undefined"]
JNull == [t |-> "null"]
JStr(s) == [t |-> "str", v |-> s]
JNum(n) == [t |-> "num", v |-> n]
JBool(b) == [t |-> "bool", v |-> b]
JArr(elems) == [t |-> "arr", v |-> elems]
JObj(fields) == [t |-> "obj", v |-> fields]
Field(k, v) == [k |-> k, v |-> v]

\* JavaScript truthiness of a value (x && ..., x || ..., !x)
Truthy(j) ==
  CASE j.t = "undefined" -> FALSE
    [] j.t = "null" -> FALSE
    [] j.t = "bool" -> j.v
    [] j.t = "num" -> j.v # 0
    [] j.t = "str" -> j.v # ""
    [] OTHER -> TRUE

\* `${x}` of a string or undefined
TemplateStr(j) ==
  CASE j.t = "undefined" -> "undefined"
    [] j.t = "null" -> "null"
    [] OTHER -> j.v

DigitChars == <<"0", "1", "2", "3", "4", "5", "6", "7", "8", "9">>

\* Number.prototype.toString of a non-negative integer, as a sequence of characters
RECURSIVE NumToChars(_)
NumToChars(n) ==
  IF n < 10 THEN <<DigitChars[n + 1]>>
  ELSE NumToChars(n \div 10) \o <<DigitChars[(n % 10) + 1]>>

NumLen(n) == IF n < 0 THEN 1 + Len(NumToChars(0 - n)) ELSE Len(NumToChars(n))

RECURSIVE JsonLen(_), JsonArrLen(_, _), JsonObjLen(_, _, _)
\* JSON.stringify(j).length; an undefined value has no serialization
JsonLen(j) ==
  CASE j.t = "undefined" -> 0
    [] j.t = "null" -> 4
    [] j.t = "bool" -> IF j.v THEN 4 ELSE 5
    [] j.t = "num" -> NumLen(j.v)
    [] j.t = "str" -> Len(j.v) + 2
    [] j.t = "arr" -> 2 + JsonArrLen(j.v, 1)
    [] j.t = "obj" -> 2 + JsonObjLen(j.v, 1, TRUE)

\* elements i.. of an array: undefined elements are written as null
JsonArrLen(elems, i) ==
  IF i > Len(elems) THEN 0
  ELSE (IF i > 1 THEN 1 ELSE 0)
       + (IF elems[i].t = "undefined" THEN 4 ELSE JsonLen(elems[i]))
       + JsonArrLen(elems, i + 1)

\* fields i.. of an object: undefined fields are left out
JsonObjLen(fields, i, first) ==
  IF i > Len(fields) THEN 0
  ELSE IF fields[i].v.t = "undefined" THEN JsonObjLen(fields, i + 1, first)
  ELSE (IF first THEN 0 ELSE 1)
       + Len(fields[i].k) + 3 + JsonLen(fields[i].v)
       + JsonObjLen(fields, i + 1, FALSE)

\* JSON.parse(JSON.stringify(j)): undefined fields dropped, undefined elements null
RECURSIVE Serialize(_), SerializeArr(_, _), SerializeObj(_, _)
Serialize(j) ==
  CASE j.t = "arr" -> JArr(SerializeArr(j.v, 1))
    [] j.t = "obj" -> JObj(SerializeObj(j.v, 1))
    [] OTHER -> j

SerializeArr(elems, i) ==
  IF i > Len(elems) THEN <<>>
  ELSE <<IF elems[i].t = "undefined" THEN JNull ELSE Serialize(elems[i])>>
       \o SerializeArr(elems, i + 1)

SerializeObj(fields, i) ==
  IF i > Len(fields) THEN <<>>
  ELSE (IF fields[i].v.t = "undefined" THEN <<>>
        ELSE <<Field(fields[i].k, Serialize(fields[i].v))>>)
       \o SerializeObj(fields, i + 1)

(***************************************************************************)
(* Responses objects: their keys are kept as sequences of characters       *)
(* because the code builds and takes them apart character by character.    *)
(***************************************************************************)
EmptyObj == JObj(<<>>)

IsDigit(c) == \E d \in 1..10 : DigitChars[d] = c

\* a canonical array index ("200"): JavaScript lists such keys first, ascending
IsIndexKey(k) ==
  /\ Len(k) > 0
  /\ \A i \in 1..Len(k) : IsDigit(k[i])
  /\ (Len(k) > 1 => k[1] # "0")

RECURSIVE CharsToNum(_)
CharsToNum(k) ==
  IF Len(k) = 0 THEN 0
  ELSE 10 * CharsToNum(SubSeq(k, 1, Len(k) - 1))
       + (CHOOSE d \in 0..9 : DigitChars[d + 1] = k[Len(k)])

ObjHas(o, k) == \E i \in 1..Len(o.v) : o.v[i].k = k
ObjGet(o, k) ==
  IF ObjHas(o, k) THEN o.v[CHOOSE i \in 1..Len(o.v) : o.v[i].k = k].v ELSE Undefined

\* o[k] = v with the property order of JavaScript objects
ObjSet(o, k, v) ==
  IF ObjHas(o, k)
  THEN JObj([i \in 1..Len(o.v) |-> IF o.v[i].k = k THEN Field(k, v) ELSE o.v[i]])
  ELSE IF IsIndexKey(k)
  THEN LET before == {i \in 1..Len(o.v) :
                        IsIndexKey(o.v[i].k) /\ CharsToNum(o.v[i].k) < CharsToNum(k)}
           n == Cardinality(before)
       IN JObj(SubSeq(o.v, 1, n) \o <<Field(k, v)>> \o SubSeq(o.v, n + 1, Len(o.v)))
  ELSE JObj(Append(o.v, Field(k, v)))

\* o[k] = v for a property name that is not an array index
ObjSetName(o, k, v) ==
  IF ObjHas(o, k)
  THEN JObj([i \in 1..Len(o.v) |-> IF o.v[i].k = k THEN Field(k, v) ELSE o.v[i]])
  ELSE JObj(Append(o.v, Field(k, v)))

\* o?.k
OptGet(o, k) == IF o.t = "obj" THEN ObjGet(o, k) ELSE Undefined

(***************************************************************************)
(* ApiSpec objects (src/src/utils/index.ts:5-15)                           *)
(***************************************************************************)
\* the object {} : every field undefined
EmptySpec ==
  [path |-> Undefined, method |-> Undefined, summary |-> Undefined,
   description |-> Undefined, tags |-> Undefined, parameters |-> 0,
   requestBody |-> Undefined, responses |-> 0, security |-> Undefined]

\* the value JSON.stringify sees for a stored spec: parameters read through the heap
SpecJson(spec, heap) ==
  JObj(<<Field("path", spec.path), Field("method", spec.method),
         Field("summary", spec.summary), Field("description", spec.description),
         Field("tags", spec.tags),
         Field("parameters",
               IF spec.parameters = 0 THEN Undefined ELSE JArr(heap[spec.parameters])),
         Field("requestBody", spec.requestBody),
         Field("responses", spec.responses),
         Field("security", spec.security)>>)

StringifyLen(spec, heap) == JsonLen(SpecJson(spec, heap))

(***************************************************************************)
(* The spec accumulator (src/src/utils/index.ts)                           *)
(***************************************************************************)
NoFile == [t |-> "absent"]

\* no timer is waiting: save counts the callbacks of scheduleSaveSpecsToFile, cleanup
\* lists the delayed deletes of cleanupTempSpecFile, oldest first
NoTimers == [save |-> 0, cleanup |-> <<>>]

\* lastFileRead = null
NoFileRead == [t |-> "null"]

\* the accumulator's module-level state as one value
Acc ==
  [apiSpecs |-> apiSpecs, specCache |-> specCache, saveTimeout |-> saveTimeout,
   timers |-> timers, lastFileRead |-> lastFileRead,
   enableFilePersistence |-> enableFilePersistence, isCleaningUp |-> isCleaningUp,
   specsFile |-> specsFile]

SetAcc(a) ==
  \E r \in {a} :
    /\ apiSpecs' = r.apiSpecs
    /\ specCache' = r.specCache
    /\ saveTimeout' = r.saveTimeout
    /\ timers' = r.timers
    /\ lastFileRead' = r.lastFileRead
    /\ enableFilePersistence' = r.enableFilePersistence
    /\ isCleaningUp' = r.isCleaningUp
    /\ specsFile' = r.specsFile

\* `${spec.path}:${spec.method}:${spec.summary || ''}`
getSpecKey(spec) ==
  TemplateStr(spec.path) \o ":" \o TemplateStr(spec.method) \o ":"
    \o (IF Truthy(spec.summary) THEN spec.summary.v ELSE "")

\* identity of a new object: the least identity no stored object has
NewOid(a) ==
  LET used == {a.apiSpecs[i].oid : i \in 1..Len(a.apiSpecs)}
              \cup {a.specCache[k].oid : k \in DOMAIN a.specCache}
  IN CHOOSE n \in 1..(Cardinality(used) + 1) : n \notin used

WithOid(spec, oid) ==
  [oid |-> oid, path |-> spec.path, method |-> spec.method, summary |-> spec.summary,
   description |-> spec.description, tags |-> spec.tags, parameters |-> spec.parameters,
   requestBody |-> spec.requestBody, responses |-> spec.responses,
   security |-> spec.security]

\* apiSpecs.indexOf(existing), 1-based; 0 when existing is not an element
IndexOf(list, obj) ==
  IF \E i \in 1..Len(list) : list[i].oid = obj.oid
  THEN CHOOSE i \in 1..Len(list) :
         /\ list[i].oid = obj.oid
         /\ \A j \in 1..(i - 1) : list[j].oid # obj.oid
  ELSE 0

MapSet(m, k, v) == [x \in DOMAIN m \cup {k} |-> IF x = k THEN v ELSE m[x]]

\* if (saveTimeout) { clearTimeout(saveTimeout); saveTimeout = null }
clearSaveTimeout(a) ==
  IF a.saveTimeout
  THEN [a EXCEPT !.saveTimeout = FALSE, !.timers.save = @ - 1]
  ELSE a

\* a debounce that leaves the earlier timer running
scheduleSaveSpecsToFileNoCancel(a) ==
  IF a.isCleaningUp THEN a
  ELSE [a EXCEPT !.saveTimeout = TRUE, !.timers.save = @ + 1]

scheduleSaveSpecsToFile(a) ==
  IF a.isCleaningUp THEN a
  ELSE [clearSaveTimeout(a) EXCEPT !.saveTimeout = TRUE, !.timers.save = @ + 1]

\* the content JSON.stringify(apiSpecs, null, 2) writes, as the value it parses to
FileContent(list, heap) ==
  JArr([i \in 1..Len(list) |-> Serialize(SpecJson(list[i], heap))])

\* a save that does not look at the cleanup flags
\* a write gives the file a modification time that no earlier read has seen
NewMtime(a) ==
  IF a.lastFileRead = NoFileRead THEN a ELSE [a EXCEPT !.lastFileRead.sameMtime = FALSE]

saveSpecsToFileUnguarded(a, heap) ==
  IF Len(a.apiSpecs) > 0
  THEN [NewMtime(a) EXCEPT !.specsFile = FileContent(a.apiSpecs, heap)]
  ELSE a

\* a save that does not look at enableFilePersistence
saveSpecsToFileIfNotCleaning(a, heap) ==
  IF Len(a.apiSpecs) > 0 /\ ~a.isCleaningUp
  THEN [NewMtime(a) EXCEPT !.specsFile = FileContent(a.apiSpecs, heap)]
  ELSE a

saveSpecsToFile(a, heap) ==
  IF Len(a.apiSpecs) > 0 /\ a.enableFilePersistence /\ ~a.isCleaningUp
  THEN [NewMtime(a) EXCEPT !.specsFile = FileContent(a.apiSpecs, heap)]
  ELSE a

\* did the call write the file
Writes(a) == Len(a.apiSpecs) > 0 /\ a.enableFilePersistence /\ ~a.isCleaningUp

\* a collection in which a richer spec is appended after its sparser version is
\* removed
addApiSpecReappends(a, spec, heap) ==
  LET key == getSpecKey(spec)
      obj == WithOid(spec, NewOid(a))
  IN IF key \in DOMAIN a.specCache
     THEN IF StringifyLen(spec, heap) > StringifyLen(a.specCache[key], heap)
          THEN [a EXCEPT
                  !.apiSpecs = Append(SelectSeq(a.apiSpecs,
                                                LAMBDA s : s # a.specCache[key]), obj),
                  !.specCache = MapSet(a.specCache, key, obj)]
          ELSE a
     ELSE LET pushed == [a EXCEPT !.apiSpecs = Append(a.apiSpecs, obj),
                                  !.specCache = MapSet(a.specCache, key, obj)]
          IN IF a.enableFilePersistence THEN scheduleSaveSpecsToFile(pushed)
             ELSE pushed

\* a collection in which the latest submission for a key always wins
addApiSpecLastWins(a, spec, heap) ==
  LET key == getSpecKey(spec)
      obj == WithOid(spec, NewOid(a))
  IN IF key \in DOMAIN a.specCache
     THEN LET index == IndexOf(a.apiSpecs, a.specCache[key])
          IN [a EXCEPT
                !.apiSpecs = IF index # 0
                             THEN [a.apiSpecs EXCEPT ![index] = obj]
                             ELSE a.apiSpecs,
                !.specCache = MapSet(a.specCache, key, obj)]
     ELSE LET pushed == [a EXCEPT !.apiSpecs = Append(a.apiSpecs, obj),
                                  !.specCache = MapSet(a.specCache, key, obj)]
          IN IF a.enableFilePersistence THEN scheduleSaveSpecsToFile(pushed)
             ELSE pushed

addApiSpec(a, spec, heap) ==
  LET key == getSpecKey(spec)
      obj == WithOid(spec, NewOid(a))
  IN IF key \in DOMAIN a.specCache
     THEN LET existing == a.specCache[key]
          IN IF StringifyLen(spec, heap) > StringifyLen(existing, heap)
             THEN LET index == IndexOf(a.apiSpecs, existing)
                  IN [a EXCEPT
                        !.apiSpecs = IF index # 0
                                     THEN [a.apiSpecs EXCEPT ![index] = obj]
                                     ELSE a.apiSpecs,
                        !.specCache = MapSet(a.specCache, key, obj)]
             ELSE a
     ELSE LET pushed == [a EXCEPT !.apiSpecs = Append(a.apiSpecs, obj),
                                  !.specCache = MapSet(a.specCache, key, obj)]
          IN IF a.enableFilePersistence THEN scheduleSaveSpecsToFile(pushed)
             ELSE pushed

\* a reset that leaves the dedup index as it was
clearApiSpecsKeepsIndex(a) ==
  [clearSaveTimeout(a) EXCEPT !.apiSpecs = <<>>, !.specsFile = NoFile]

clearApiSpecs(a) ==
  [clearSaveTimeout(a) EXCEPT !.apiSpecs = <<>>,
                              !.specCache = [k \in {} |-> EmptySpec],
                              !.specsFile = NoFile]

disableFilePersistence(a) == [a EXCEPT !.enableFilePersistence = FALSE]

enableFilePersistenceMode(a) == [a EXCEPT !.enableFilePersistence = TRUE]

stopFileWrites(a) ==
  clearSaveTimeout([a EXCEPT !.isCleaningUp = TRUE, !.enableFilePersistence = FALSE])

resumeFileWrites(a) ==
  [a EXCEPT !.isCleaningUp = FALSE, !.enableFilePersistence = TRUE]

\* cleanupTempSpecFile(): the delete waits in a timer of its own
cleanupTempSpecFile(a) ==
  [stopFileWrites(a) EXCEPT
     !.timers.cleanup = Append(@, [resumed |-> FALSE, written |-> FALSE])]

\* the pending deletes after a call of resumeFileWrites and after a write of the
\* spec file (history: what happened since cleanupTempSpecFile set them)
NoteResume(a) ==
  [a EXCEPT !.timers.cleanup = [i \in 1..Len(@) |-> [@[i] EXCEPT !.resumed = TRUE]]]
NoteWrite(a) ==
  [a EXCEPT !.timers.cleanup =
              [i \in 1..Len(@) |-> [@[i] EXCEPT !.written = @ \/ a.timers.cleanup[i].resumed]]]

\* the callback of the debounce timer
SaveTimerFires ==
  /\ timers.save > 0
  /\ phase = "run"
  /\ SetAcc([(IF ~isCleaningUp
              THEN saveSpecsToFile(IF Writes(Acc) THEN NoteWrite(Acc) ELSE Acc, paramHeap)
              ELSE Acc)
               EXCEPT !.saveTimeout = FALSE, !.timers.save = @ - 1])
  /\ UNCHANGED <<currentApiSpec, scopeStack, paramHeap, respHeap, tests, phase,
                 testIdx, document, documentCache, declaredSpecs, declaredOps, pid, schemaCache, cli, hist, nCalls, lastSubmit>>

(***************************************************************************)
(* Response capture (postman-plugin.ts:442-706), for values without        *)
(* strings and without shared or cyclic parts                              *)
(***************************************************************************)
DANGEROUS_KEYS ==
  {"req", "request", "socket", "connection", "agent", "xhr", "_httpMessage",
   "res", "response", "client", "parser"}

\* key.startsWith('_') for the property names that occur in captured values
StartsWithUnderscore(k) == k \in {"_httpMessage", "_id", "_events"}

IsObjectType(j) == j.t \in {"obj", "arr"}

RECURSIVE removeBrowserObjects(_), CleanFields(_, _)
removeBrowserObjects(obj) ==
  CASE obj.t = "arr" -> JArr([i \in 1..Len(obj.v) |-> removeBrowserObjects(obj.v[i])])
    [] obj.t = "obj" -> JObj(CleanFields(obj.v, 1))
    [] OTHER -> obj

CleanFields(fields, i) ==
  IF i > Len(fields) THEN <<>>
  ELSE (IF fields[i].k \notin DANGEROUS_KEYS /\ ~StartsWithUnderscore(fields[i].k)
        THEN <<Field(fields[i].k, removeBrowserObjects(fields[i].v))>>
        ELSE <<>>)
       \o CleanFields(fields, i + 1)

\* a || b
OrElse(a, b) == IF Truthy(a) THEN a ELSE b

\* Object.keys of an array are its indices
extractSafeHeaders(headers) ==
  IF ~Truthy(headers) \/ ~IsObjectType(headers) THEN EmptyObj
  ELSE IF headers.t = "arr"
  THEN JObj(SelectSeq([i \in 1..Len(headers.v) |->
                         Field(NumToChars(i - 1), headers.v[i])],
                      LAMBDA f : f.v.t \in {"str", "num"}))
  ELSE JObj(SelectSeq(headers.v, LAMBDA f : f.v.t \in {"str", "num"}))

extractSafeResponseDataFirst(response) ==
  IF response.t = "obj" /\ ObjGet(response, "data").t # "undefined"
  THEN ObjGet(response, "data")
  ELSE IF response.t = "obj" /\ ObjGet(response, "body").t # "undefined"
  THEN ObjGet(response, "body")
  ELSE IF response.t = "obj"
          /\ (ObjGet(response, "status").t # "undefined"
              \/ ObjGet(response, "statusCode").t # "undefined")
  THEN JObj(<<Field("status", OrElse(ObjGet(response, "status"),
                                     ObjGet(response, "statusCode"))),
              Field("data", OrElse(ObjGet(response, "body"), ObjGet(response, "data"))),
              Field("headers", extractSafeHeaders(ObjGet(response, "headers")))>>)
  ELSE removeBrowserObjects(response)

extractSafeResponse(response) ==
  IF response.t = "obj" /\ ObjGet(response, "body").t # "undefined"
  THEN ObjGet(response, "body")
  ELSE IF response.t = "obj" /\ ObjGet(response, "data").t # "undefined"
  THEN ObjGet(response, "data")
  ELSE IF response.t = "obj"
          /\ (ObjGet(response, "status").t # "undefined"
              \/ ObjGet(response, "statusCode").t # "undefined")
  THEN JObj(<<Field("status", OrElse(ObjGet(response, "status"),
                                     ObjGet(response, "statusCode"))),
              Field("data", OrElse(ObjGet(response, "body"), ObjGet(response, "data"))),
              Field("headers", extractSafeHeaders(ObjGet(response, "headers")))>>)
  ELSE removeBrowserObjects(response)

(***************************************************************************)
(* String format detection. A string that reaches schema inference is a    *)
(* sequence of characters, so that the regular expressions, Date.parse and  *)
(* new URL are computed on its characters.                                  *)
(***************************************************************************)
Digits == {"0", "1", "2", "3", "4", "5", "6", "7", "8", "9"}
LowerChars ==
  <<"a", "b", "c", "d", "e", "f", "g", "h", "i", "j", "k", "l", "m",
    "n", "o", "p", "q", "r", "s", "t", "u", "v", "w", "x", "y", "z">>
UpperChars ==
  <<"A", "B", "C", "D", "E", "F", "G", "H", "I", "J", "K", "L", "M",
    "N", "O", "P", "Q", "R", "S", "T", "U", "V", "W", "X", "Y", "Z">>
Letters == {LowerChars[i] : i \in 1..26} \cup {UpperChars[i] : i \in 1..26}
HexDigits == Digits \cup {"a", "b", "c", "d", "e", "f", "A", "B", "C", "D", "E", "F"}
\* the characters \s matches
Whitespace == {" ", "\t", "\n", "\r"}

\* the lower case of a character, as the flag i of a regular expression and the
\* URL parser take it
LowerChar(c) ==
  IF \E i \in 1..26 : UpperChars[i] = c
  THEN LowerChars[CHOOSE i \in 1..26 : UpperChars[i] = c]
  ELSE c

AllIn(str, chars) == \A i \in 1..Len(str) : str[i] \in chars

\* the number a sequence of decimal digits denotes
RECURSIVE DigitsValue(_)
DigitsValue(str) ==
  IF Len(str) = 0 THEN 0
  ELSE 10 * DigitsValue(SubSeq(str, 1, Len(str) - 1))
       + (CHOOSE d \in 0..9 : DigitChars[d + 1] = str[Len(str)])

\* str.split(sep)
RECURSIVE Split(_, _)
Split(str, sep) ==
  IF \E i \in 1..Len(str) : str[i] = sep
  THEN LET i == CHOOSE j \in 1..Len(str) :
                  str[j] = sep /\ \A k \in 1..(j - 1) : str[k] # sep
       IN <<SubSeq(str, 1, i - 1)>> \o Split(SubSeq(str, i + 1, Len(str)), sep)
  ELSE <<str>>

\* /^[^\s@]+@[^\s@]+\.[^\s@]+$/
IsEmail(str) ==
  /\ \A i \in 1..Len(str) : str[i] \notin Whitespace
  /\ Cardinality({i \in 1..Len(str) : str[i] = "@"}) = 1
  /\ LET at == CHOOSE i \in 1..Len(str) : str[i] = "@"
     IN /\ at > 1
        /\ \E dot \in (at + 2)..(Len(str) - 1) : str[dot] = "."

\* /^[0-9a-f]{8}-[0-9a-f]{4}-[1-5][0-9a-f]{3}-[89ab][0-9a-f]{3}-[0-9a-f]{12}$/i
IsUuid(str) ==
  /\ Len(str) = 36
  /\ \A i \in 1..36 : IF i \in {9, 14, 19, 24} THEN str[i] = "-" ELSE str[i] \in HexDigits
  /\ str[15] \in {"1", "2", "3", "4", "5"}
  /\ LowerChar(str[20]) \in {"8", "9", "a", "b"}

\* /^\d{4}-\d{2}-\d{2}$/
MatchesDate(str) ==
  /\ Len(str) = 10
  /\ \A i \in 1..10 : IF i \in {5, 8} THEN str[i] = "-" ELSE str[i] \in Digits

\* /^\d{4}-\d{2}-\d{2}T\d{2}:\d{2}:\d{2}/
MatchesDateTime(str) ==
  /\ Len(str) >= 19
  /\ MatchesDate(SubSeq(str, 1, 10))
  /\ str[11] = "T"
  /\ \A i \in 12..19 : IF i \in {14, 17} THEN str[i] = ":" ELSE str[i] \in Digits

\* the time zone an ISO date-time may end with
IsTimeZone(str) ==
  \/ str = <<>>
  \/ str = <<"Z">>
  \/ /\ Len(str) = 6
     /\ str[1] \in {"+", "-"}
     /\ str[4] = ":"
     /\ AllIn(<<str[2], str[3], str[5], str[6]>>, Digits)
     /\ DigitsValue(<<str[2], str[3]>>) <= 23
     /\ DigitsValue(<<str[5], str[6]>>) <= 59

\* !isNaN(Date.parse(str)) for a string of one of the two forms above: the date
\* parser takes months 1 to 12, days 1 to 31, hours to 23 (or 24:00:00), minutes and
\* seconds to 59, a fraction of a second and a time zone
DateParses(str) ==
  /\ DigitsValue(SubSeq(str, 6, 7)) \in 1..12
  /\ DigitsValue(SubSeq(str, 9, 10)) \in 1..31
  /\ Len(str) > 10 =>
       LET hour == DigitsValue(SubSeq(str, 12, 13))
           minute == DigitsValue(SubSeq(str, 15, 16))
           second == DigitsValue(SubSeq(str, 18, 19))
           rest == SubSeq(str, 20, Len(str))
           fraction == IF Len(rest) > 0 /\ rest[1] = "."
                       THEN CHOOSE n \in 1..Len(rest) :
                              /\ \A i \in 2..n : rest[i] \in Digits
                              /\ (n = Len(rest) \/ rest[n + 1] \notin Digits)
                       ELSE 0
       IN /\ hour <= 23 \/ (hour = 24 /\ minute = 0 /\ second = 0)
          /\ minute <= 59
          /\ second <= 59
          /\ fraction # 1
          /\ IsTimeZone(SubSeq(rest, fraction + 1, Len(rest)))

\* the schemes whose URLs need a host
SpecialSchemes ==
  {<<"h", "t", "t", "p">>, <<"h", "t", "t", "p", "s">>, <<"f", "t", "p">>,
   <<"w", "s">>, <<"w", "s", "s">>}

\* does new URL(str) return: str has a scheme, and when the scheme is one that needs
\* a host, a host of letters, digits, dots and hyphens follows the slashes, after
\* the credentials and before a port of digits
IsUrl(str) ==
  /\ \E i \in 2..Len(str) : str[i] = ":"
  /\ LET colon == CHOOSE i \in 1..Len(str) :
                    str[i] = ":" /\ \A k \in 1..(i - 1) : str[k] # ":"
         scheme == [i \in 1..(colon - 1) |-> LowerChar(str[i])]
         rest == SubSeq(str, colon + 1, Len(str))
         slashes == CHOOSE n \in 0..Len(rest) :
                      /\ \A i \in 1..n : rest[i] \in {"/", "\\"}
                      /\ (n = Len(rest) \/ rest[n + 1] \notin {"/", "\\"})
         afterSlashes == SubSeq(rest, slashes + 1, Len(rest))
         authorityEnd == IF \E i \in 1..Len(afterSlashes) :
                              afterSlashes[i] \in {"/", "\\", "?", "#"}
                         THEN (CHOOSE i \in 1..Len(afterSlashes) :
                                 /\ afterSlashes[i] \in {"/", "\\", "?", "#"}
                                 /\ \A k \in 1..(i - 1) :
                                      afterSlashes[k] \notin {"/", "\\", "?", "#"}) - 1
                         ELSE Len(afterSlashes)
         authority == SubSeq(afterSlashes, 1, authorityEnd)
         credentials == Split(authority, "@")
         hostPort == Split(credentials[Len(credentials)], ":")
         host == hostPort[1]
     IN /\ colon > 1
        /\ scheme[1] \in Letters
        /\ AllIn(scheme, Letters \cup Digits \cup {"+", "-", "."})
        /\ scheme \in SpecialSchemes =>
             /\ Len(host) > 0
             /\ AllIn(host, Letters \cup Digits \cup {".", "-"})
             /\ Len(hostPort) <= 2
             /\ Len(hostPort) = 2 =>
                  /\ AllIn(hostPort[2], Digits)
                  /\ Len(hostPort[2]) <= 5
                  /\ DigitsValue(hostPort[2]) <= 65535

\* (?:25[0-5]|2[0-4][0-9]|[01]?[0-9][0-9]?)
IsOctet(str) ==
  /\ Len(str) \in 1..3
  /\ AllIn(str, Digits)
  /\ DigitsValue(str) <= 255

IsIPv4(str) ==
  LET parts == Split(str, ".")
  IN Len(parts) = 4 /\ \A i \in 1..4 : IsOctet(parts[i])

\* /^(([0-9a-fA-F]{1,4}:){7}[0-9a-fA-F]{1,4}|::1|::)$/
IsIPv6(str) ==
  \/ str = <<":", ":", "1">>
  \/ str = <<":", ":">>
  \/ LET parts == Split(str, ":")
     IN /\ Len(parts) = 8
        /\ \A i \in 1..8 : Len(parts[i]) \in 1..4 /\ AllIn(parts[i], HexDigits)

StringSchema(data, format) ==
  JObj(<<Field("type", JStr("string")), Field("format", JStr(format)),
         Field("example", data)>>)

generateStringSchemaUrlFirst(data) ==
  LET str == data.v
  IN IF IsUrl(str) THEN StringSchema(data, "uri")
     ELSE IF IsEmail(str) THEN StringSchema(data, "email")
     ELSE IF IsUuid(str) THEN StringSchema(data, "uuid")
     ELSE IF MatchesDate(str) /\ DateParses(str) THEN StringSchema(data, "date")
     ELSE IF MatchesDateTime(str) /\ DateParses(str) THEN StringSchema(data, "date-time")
     ELSE IF IsIPv4(str) THEN StringSchema(data, "ipv4")
     ELSE IF IsIPv6(str) THEN StringSchema(data, "ipv6")
     ELSE JObj(<<Field("type", JStr("string")), Field("example", data)>>)

\* the string branch of generateSchemaFromResponse
generateStringSchema(data) ==
  LET str == data.v
  IN IF IsEmail(str) THEN StringSchema(data, "email")
     ELSE IF IsUuid(str) THEN StringSchema(data, "uuid")
     ELSE IF MatchesDate(str) /\ DateParses(str) THEN StringSchema(data, "date")
     ELSE IF MatchesDateTime(str) /\ DateParses(str) THEN StringSchema(data, "date-time")
     ELSE IF IsUrl(str) THEN StringSchema(data, "uri")
     ELSE IF IsIPv4(str) THEN StringSchema(data, "ipv4")
     ELSE IF IsIPv6(str) THEN StringSchema(data, "ipv6")
     ELSE JObj(<<Field("type", JStr("string")), Field("example", data)>>)

MaxSchemaDepth == 10
MaxSchemaKeys == 10

Min(a, b) == IF a < b THEN a ELSE b

(***************************************************************************)
(* Objects with identity. A value [t |-> "ref", id |-> n] is a reference   *)
(* to object n of ObjectTable: the same object can be reached from several  *)
(* places and from itself. An object written in place is referenced from    *)
(* the one place where it stands.                                           *)
(***************************************************************************)
Ref(id) == [t |-> "ref", id |-> id]

\* const x = { name: 1 }; x.self = x
\* const a = {}, b = { a }; a.b = b
\* const list = []; list.push(list)
\* const shared = { v: { w: 1 } }
ObjectTable ==
  <<JObj(<<Field("name", JNum(1)), Field("self", Ref(1))>>),
    JObj(<<Field("b", Ref(3))>>),
    JObj(<<Field("a", Ref(2))>>),
    JArr(<<Ref(4)>>),
    JObj(<<Field("v", JObj(<<Field("w", JNum(1))>>))>>)>>

\* a property or an array element whose read throws: an accessor property whose
\* getter throws
ThrowingGetter == [t |-> "getter"]

Deref(data) == IF data.t = "ref" THEN ObjectTable[data.id] ELSE data

\* the identities a WeakSet or WeakMap can hold for a value
Identity(data) == IF data.t = "ref" THEN {data.id} ELSE {}

NoSchemas == [id \in {} |-> EmptyObj]

MaxDepthSchema ==
  JObj(<<Field("type", JStr("object")),
         Field("description", JStr("Maximum depth reached"))>>)

CircularSchema(type) ==
  JObj(<<Field("type", JStr(type)),
         Field("description", JStr("Circular reference detected"))>>)

\* schemaCache.set(data, schema). Only objects of ObjectTable are kept in
\* schemaCache: no later lookup can find an object written in place
SetCached(cache, data, schema) ==
  IF data.t = "ref" THEN MapSet(cache, data.id, schema) ELSE cache

ArrayTypeSchema(data, items) ==
  JObj(<<Field("type", JStr("array")), Field("items", items),
         Field("example", IF Len(Deref(data).v) > 0 THEN JArr(<<Deref(data).v[1]>>)
                          ELSE JArr(<<>>))>>)

\* the outcome for an array from the outcome of the inference on its first element:
\* the array branch catches nothing, and an array whose element threw is not cached
ArraySchema(data, items) ==
  [schemaCache |-> IF data.t = "ref" /\ ~items.threw
                   THEN SetCached(items.schemaCache, data,
                                  ArrayTypeSchema(data, items.schema))
                   ELSE items.schemaCache,
   schema |-> IF items.threw THEN EmptyObj ELSE ArrayTypeSchema(data, items.schema),
   threw |-> items.threw]

\* the schema the catch block of the loop over the keys stores
ProcessingFailedSchema ==
  JObj(<<Field("type", JStr("string")),
         Field("description", JStr("Processing failed"))>>)

\* the schema of an object from the schemas of its first n properties; visited
\* holds the object itself. A property in whose try block an error was thrown is
\* neither required nor part of the example
ObjectTypeSchema(data, n, properties, visited) ==
  LET pushed == SelectSeq([i \in 1..n |-> [field |-> Deref(data).v[i],
                                           schema |-> properties[i].v]],
                          LAMBDA p : /\ p.field.v.t \notin {"null", "undefined"}
                                     /\ p.schema # ProcessingFailedSchema)
      present == [i \in 1..Len(pushed) |-> pushed[i].field]
      required == [i \in 1..Len(present) |-> JStr(present[i].k)]
      safeExample == SelectSeq(present, LAMBDA f : Identity(f.v) \cap visited = {})
  IN JObj(<<Field("type", JStr("object")),
            Field("properties", JObj(properties)),
            Field("required", IF Len(required) > 0 THEN JArr(required)
                              ELSE Undefined),
            Field("example", JObj(safeExample))>>)

\* the outcome for an object from the outcome of the loop over its first n keys
ObjectSchema(data, n, properties, visited) ==
  [schemaCache |-> IF data.t = "ref"
                   THEN SetCached(properties.schemaCache, data,
                                  ObjectTypeSchema(data, n, properties.fields, visited))
                   ELSE properties.schemaCache,
   schema |-> ObjectTypeSchema(data, n, properties.fields, visited),
   threw |-> FALSE]

\* generateSchemaFromResponse(data, visited, depth) with the schemaCache it finds:
\* the schema it returns, or threw, and the schemaCache it leaves. The cases exclude
\* one another: within the depth limit, an object or array that schemaCache and
\* visited do not hold is traversed; every other value is answered at once, in the
\* order of the code. The read of a property or element and the call on its value
\* are one expression of the code: for a property or element whose read throws,
\* the call throws
RECURSIVE generateSchemaCached(_, _, _, _), SchemaProperties(_, _, _, _, _)
generateSchemaCached(data, visited, depth, cache) ==
  IF depth <= MaxSchemaDepth /\ Deref(data).t = "obj"
     /\ Identity(data) \cap (DOMAIN cache \cup visited) = {}
  THEN ObjectSchema(data, Min(Len(Deref(data).v), MaxSchemaKeys),
                    SchemaProperties(Deref(data).v,
                                     Min(Len(Deref(data).v), MaxSchemaKeys),
                                     visited \cup Identity(data), depth, cache),
                    visited \cup Identity(data))
  ELSE IF depth <= MaxSchemaDepth /\ Deref(data).t = "arr"
          /\ Identity(data) \cap (DOMAIN cache \cup visited) = {}
  THEN ArraySchema(data, IF Len(Deref(data).v) > 0
                         THEN generateSchemaCached(Deref(data).v[1],
                                                   visited \cup Identity(data),
                                                   depth + 1, cache)
                         ELSE [schemaCache |-> cache, schema |-> EmptyObj,
                               threw |-> FALSE])
  ELSE [schemaCache |-> cache,
        schema |->
          IF data = ThrowingGetter THEN EmptyObj
          ELSE IF depth > MaxSchemaDepth THEN MaxDepthSchema
          ELSE CASE data.t = "null" -> JObj(<<Field("type", JStr("null"))>>)
                 [] data.t = "str" -> generateStringSchema(data)
                 [] data.t = "num" ->
                      JObj(<<Field("type", JStr("integer")), Field("example", data)>>)
                 [] data.t = "bool" ->
                      JObj(<<Field("type", JStr("boolean")), Field("example", data)>>)
                 [] Identity(data) \cap DOMAIN cache # {} -> cache[data.id]
                 [] Deref(data).t = "arr" -> CircularSchema("array")
                 [] Deref(data).t = "obj" -> CircularSchema("object")
                 [] OTHER -> EmptyObj,
        threw |-> data = ThrowingGetter]

\* the schemas of the first n properties, each inferred with the schemaCache the
\* one before it left; the catch block of a property stores ProcessingFailedSchema
SchemaProperties(fields, n, visited, depth, cache) ==
  IF n = 0 THEN [schemaCache |-> cache, fields |-> <<>>]
  ELSE LET before == SchemaProperties(fields, n - 1, visited, depth, cache)
           property == generateSchemaCached(fields[n].v, visited, depth + 1,
                                            before.schemaCache)
       IN [schemaCache |-> property.schemaCache,
           fields |-> Append(before.fields,
                             Field(fields[n].k, IF property.threw
                                                THEN ProcessingFailedSchema
                                                ELSE property.schema))]

\* a call with a new WeakSet; the objects of its argument were made for this call,
\* so schemaCache has none of them yet
generateSchemaFromResponse(data, depth) ==
  generateSchemaCached(data, {}, depth, NoSchemas).schema

\* does the call throw
generateSchemaThrows(data, depth) ==
  generateSchemaCached(data, {}, depth, NoSchemas).threw

(***************************************************************************)
(* Arguments of the DSL calls                                              *)
(***************************************************************************)
Paths == {"/a", "/b"}
RunPaths == {"/a"}
Methods == {"GET", "POST"}
DeclMethods == {"GET"}
Summaries == {"list"}
Descriptions == {"d", "a longer description of the operation"}
DeclDescriptions == {"d"}
TagLists == {<<"users">>}
StatusCodes == {200, 404}
DeclStatusCodes == {200}
ResponseDescs == {"ok"}
LegacyDescs == {"ok", "fine"}

ParamId ==
  JObj(<<Field("name", JStr("id")), Field("in", JStr("path")),
         Field("schema", JObj(<<Field("type", JStr("string"))>>))>>)
ParamPage ==
  JObj(<<Field("name", JStr("page")), Field("in", JStr("query")),
         Field("schema", JObj(<<Field("type", JStr("integer"))>>))>>)
Params == {ParamId, ParamPage}

\* jsonContent(schema, example)
jsonContent(schema, example) ==
  JObj(<<Field("application/json",
               JObj(<<Field("schema", schema), Field("example", example)>>))>>)

UserExample == JObj(<<Field("id", JNum(1)), Field("age", JNum(30))>>)
UserSchema ==
  JObj(<<Field("type", JStr("object")),
         Field("properties",
               JObj(<<Field("id", JObj(<<Field("type", JStr("integer")),
                                         Field("example", JNum(1))>>)),
                      Field("age", JObj(<<Field("type", JStr("integer")),
                                          Field("example", JNum(30))>>))>>)),
         Field("required", JArr(<<JStr("id"), JStr("age")>>)),
         Field("example", UserExample)>>)
DeclaredContent == jsonContent(UserSchema, UserExample)
DeclaredHeaders ==
  JObj(<<Field("X-Total", JObj(<<Field("schema",
                                       JObj(<<Field("type", JStr("integer"))>>))>>))>>)
Bodies == {JObj(<<Field("required", JBool(TRUE)), Field("content", DeclaredContent)>>)}

\* what a test body resolves to
ResEmpty == EmptyObj
ResWrapped ==
  JObj(<<Field("status", JNum(200)), Field("body", JObj(<<Field("id", JNum(1))>>))>>)

Fn(result) == [t |-> "function", result |-> result]

\* the (options, callback) argument pairs of response()
ResponseCalls ==
  {<<Fn(ResWrapped), Undefined>>,
   <<JObj(<<Field("content", DeclaredContent),
            Field("headers", DeclaredHeaders)>>), Fn(ResEmpty)>>}
SkipResponseCalls ==
  {<<Undefined, Undefined>>,
   <<JObj(<<Field("content", DeclaredContent),
            Field("headers", DeclaredHeaders)>>), Fn(ResEmpty)>>}

\* String.prototype.toLowerCase on the method names in use
ToLowerCase(m) ==
  CASE m = "GET" -> "get"
    [] m = "POST" -> "post"
    [] m = "PUT" -> "put"
    [] m = "PATCH" -> "patch"
    [] m = "DELETE" -> "delete"
    [] OTHER -> m

(***************************************************************************)
(* The declaration DSL (postman-plugin.ts:203-430)                         *)
(***************************************************************************)
NoSubmit == [by |-> "none"]

\* contents of the cursor's responses object
CursorResponses(cur, heap) == IF cur.responses = 0 THEN Undefined ELSE heap[cur.responses]

\* the cursor with its references read through the heaps
View(cur, ph, rh) ==
  [path |-> cur.path, method |-> cur.method, summary |-> cur.summary,
   description |-> cur.description, tags |-> cur.tags,
   parameters |-> IF cur.parameters = 0 THEN Undefined ELSE JArr(ph[cur.parameters]),
   requestBody |-> cur.requestBody, responses |-> CursorResponses(cur, rh),
   security |-> cur.security]

\* identity of the innermost open operation() call, 0 outside any operation
CurrentOp ==
  LET ops == {i \in 1..Len(scopeStack) : scopeStack[i].kind = "operation"}
  IN IF ops = {} THEN 0
     ELSE scopeStack[CHOOSE i \in ops : \A j \in ops : j <= i].id

\* path(pathUrl, callback), up to the start of the describe callback
PathEnter(pathUrl) ==
  /\ phase = "declare"
  /\ scopeStack' = Append(scopeStack,
                          [kind |-> "path", id |-> nCalls + 1, arg |-> pathUrl,
                           originalSpec |-> currentApiSpec,
                           before |-> View(currentApiSpec, paramHeap, respHeap),
                           declaredParams |-> <<>>])
  /\ currentApiSpec' = [currentApiSpec EXCEPT !.path = JStr(pathUrl)]
  /\ nCalls' = nCalls + 1
  /\ UNCHANGED <<paramHeap, respHeap, tests, phase, testIdx, apiSpecs, specCache,
                 saveTimeout, timers, lastFileRead, enableFilePersistence, isCleaningUp, specsFile,
                 document, documentCache, declaredSpecs, declaredOps, pid, schemaCache, cli, hist, lastSubmit>>

\* operation(method, summary, callback), up to the start of the describe callback
OperationEnter(method, summary) ==
  /\ phase = "declare"
  /\ scopeStack' = Append(scopeStack,
                          [kind |-> "operation", id |-> nCalls + 1, arg |-> method,
                           originalSpec |-> currentApiSpec,
                           before |-> View(currentApiSpec, paramHeap, respHeap),
                           declaredParams |-> <<>>])
  /\ respHeap' = Append(respHeap, EmptyObj)
  /\ currentApiSpec' = [currentApiSpec EXCEPT !.method = JStr(ToLowerCase(method)),
                                               !.summary = JStr(summary),
                                               !.responses = Len(respHeap) + 1]
  /\ nCalls' = nCalls + 1
  /\ declaredOps' = Append(declaredOps,
                           [id |-> nCalls + 1, path |-> currentApiSpec.path,
                            method |-> JStr(ToLowerCase(method)),
                            summary |-> JStr(summary)])
  /\ UNCHANGED <<paramHeap, tests, phase, testIdx, apiSpecs, specCache,
                 saveTimeout, timers, lastFileRead, enableFilePersistence, isCleaningUp, specsFile,
                 document, documentCache, declaredSpecs, lastSubmit, pid, schemaCache, cli, hist>>

\* the end of the describe callback of path() or operation()
ScopeExit ==
  /\ phase = "declare"
  /\ Len(scopeStack) > 0
  /\ currentApiSpec' = scopeStack[Len(scopeStack)].originalSpec
  /\ scopeStack' = SubSeq(scopeStack, 1, Len(scopeStack) - 1)
  /\ UNCHANGED <<paramHeap, respHeap, tests, phase, testIdx, apiSpecs, specCache,
                 saveTimeout, timers, lastFileRead, enableFilePersistence, isCleaningUp, specsFile,
                 document, documentCache, declaredSpecs, declaredOps, pid, schemaCache, cli, hist, nCalls, lastSubmit>>

DslFrame == <<scopeStack, respHeap, tests, phase, testIdx, apiSpecs, specCache,
              saveTimeout, timers, lastFileRead, enableFilePersistence, isCleaningUp, specsFile, document,
              documentCache, declaredSpecs, declaredOps, pid, schemaCache, cli, hist, lastSubmit>>

tags(tagNames) ==
  /\ phase = "declare"
  /\ nCalls' = nCalls + 1
  /\ currentApiSpec' =
       [currentApiSpec EXCEPT !.tags = JArr([i \in 1..Len(tagNames) |-> JStr(tagNames[i])])]
  /\ UNCHANGED <<paramHeap, DslFrame>>

description(desc) ==
  /\ phase = "declare"
  /\ nCalls' = nCalls + 1
  /\ currentApiSpec' = [currentApiSpec EXCEPT !.description = JStr(desc)]
  /\ UNCHANGED <<paramHeap, DslFrame>>

requestBody(body) ==
  /\ phase = "declare"
  /\ nCalls' = nCalls + 1
  /\ currentApiSpec' = [currentApiSpec EXCEPT !.requestBody = body]
  /\ UNCHANGED <<paramHeap, DslFrame>>

RECURSIVE TotalLen(_)
TotalLen(heap) == IF heap = <<>> THEN 0 ELSE Len(Head(heap)) + TotalLen(Tail(heap))

\* history only: the parameter is noted on the innermost open scope
NoteParam(stack, param) ==
  IF Len(stack) = 0 THEN stack
  ELSE [stack EXCEPT ![Len(stack)].declaredParams = Append(@, param)]

parameter(param) ==
  /\ phase = "declare"
  /\ nCalls' = nCalls + 1
  /\ IF currentApiSpec.parameters = 0
     THEN /\ paramHeap' = Append(paramHeap, <<param>>)
          /\ currentApiSpec' = [currentApiSpec EXCEPT !.parameters = Len(paramHeap) + 1]
     ELSE /\ paramHeap' = [paramHeap EXCEPT ![currentApiSpec.parameters] = Append(@, param)]
          /\ UNCHANGED currentApiSpec
  /\ scopeStack' = NoteParam(scopeStack, param)
  /\ UNCHANGED <<respHeap, tests, phase, testIdx, apiSpecs, specCache,
                 saveTimeout, timers, lastFileRead, enableFilePersistence, isCleaningUp, specsFile, document,
                 documentCache, declaredSpecs, declaredOps, pid, schemaCache, cli, hist, lastSubmit>>

\* the two call shapes of response(): (callback) and (options, callback)
ResolveCall(options, callback) ==
  IF options.t = "function"
  THEN [responseOptions |-> JObj(<<Field("captureResponse", JBool(TRUE))>>),
        testCallback |-> options]
  ELSE IF options.t = "obj"
  THEN [responseOptions |->
          IF Truthy(callback) /\ ~Truthy(ObjGet(options, "captureResponse"))
          THEN ObjSetName(options, "captureResponse", JBool(TRUE))
          ELSE options,
        testCallback |-> callback]
  ELSE [responseOptions |-> Undefined, testCallback |-> Undefined]

\* { description, ...(content && {content}), ...(headers && {headers}) }
ResponseObj(desc, content, headers) ==
  JObj(<<Field("description", JStr(desc))>>
       \o (IF Truthy(content) THEN <<Field("content", content)>> ELSE <<>>)
       \o (IF Truthy(headers) THEN <<Field("headers", headers)>> ELSE <<>>))

\* the while loop that looks for a response key not yet in use
RECURSIVE FreeResponseKey(_, _, _, _)
FreeResponseKey(responses, statusCode, responseKey, counter) ==
  IF ObjHas(responses, responseKey)
  THEN FreeResponseKey(responses, statusCode,
                       NumToChars(statusCode) \o <<"-">> \o NumToChars(counter),
                       counter + 1)
  ELSE responseKey

ResponseKey(responses, statusCode) ==
  FreeResponseKey(responses, statusCode, NumToChars(statusCode), 1)

\* a snapshot that leaves out the parameters of the cursor
SnapshotWithoutScope(cur, responses) ==
  [path |-> cur.path, method |-> cur.method, summary |-> cur.summary,
   description |-> cur.description, tags |-> cur.tags, parameters |-> 0,
   requestBody |-> cur.requestBody, responses |-> responses, security |-> cur.security]

\* the specSnapshot object literal
Snapshot(cur, responses) ==
  [path |-> cur.path, method |-> cur.method, summary |-> cur.summary,
   description |-> cur.description, tags |-> cur.tags, parameters |-> cur.parameters,
   requestBody |-> cur.requestBody, responses |-> responses, security |-> cur.security]

\* history only: the path() and parameter() calls that enclose the innermost operation
EnclosingPath ==
  LET ps == {i \in 1..Len(scopeStack) : scopeStack[i].kind = "path"}
  IN IF ps = {} THEN Undefined
     ELSE JStr(scopeStack[CHOOSE i \in ps : \A j \in ps : j <= i].arg)

RECURSIVE ParamsAbove(_, _)
ParamsAbove(stack, n) ==
  IF n = 0 THEN <<>> ELSE ParamsAbove(stack, n - 1) \o stack[n].declaredParams

EnclosingParams ==
  LET ops == {i \in 1..Len(scopeStack) : scopeStack[i].kind = "operation"}
  IN IF ops = {} THEN <<>>
     ELSE ParamsAbove(scopeStack, (CHOOSE i \in ops : \A j \in ops : j <= i) - 1)

\* response(statusCode, desc, options, callback): the synchronous part
response(statusCode, desc, options, callback) ==
  /\ phase = "declare"
  /\ nCalls' = nCalls + 1
  /\ LET rid == IF currentApiSpec.responses = 0 THEN Len(respHeap) + 1
                ELSE currentApiSpec.responses
         rh0 == IF currentApiSpec.responses = 0 THEN Append(respHeap, EmptyObj)
                ELSE respHeap
         call == ResolveCall(options, callback)
         responseObj == ResponseObj(desc, OptGet(call.responseOptions, "content"),
                                    OptGet(call.responseOptions, "headers"))
         responseKey == ResponseKey(rh0[rid], statusCode)
         rh1 == [rh0 EXCEPT ![rid] = ObjSet(@, responseKey, responseObj)]
         specSnapshot == Snapshot(currentApiSpec, rh1[rid])
         submit == Truthy(specSnapshot.path) /\ Truthy(specSnapshot.method)
     IN /\ respHeap' = rh1
        /\ currentApiSpec' = [currentApiSpec EXCEPT !.responses = rid]
        /\ SetAcc(IF submit THEN addApiSpec(Acc, specSnapshot, paramHeap) ELSE Acc)
        /\ tests' = Append(tests,
                           [statusCode |-> statusCode, desc |-> desc,
                            responseOptions |-> call.responseOptions,
                            testCallback |-> call.testCallback,
                            responseKey |-> responseKey, specSnapshot |-> specSnapshot,
                            op |-> CurrentOp, responseObj |-> responseObj,
                            completed |-> FALSE,
                            arguments |-> [options |-> options, callback |-> callback]])
        /\ lastSubmit' =
             IF submit
             THEN [by |-> "response", test |-> Len(tests) + 1, spec |-> specSnapshot,
                   json |-> SpecJson(specSnapshot, paramHeap), op |-> CurrentOp,
                   enclosingPath |-> EnclosingPath, enclosingParams |-> EnclosingParams]
             ELSE lastSubmit
  /\ UNCHANGED <<scopeStack, paramHeap, phase, testIdx, document, documentCache,
                 declaredSpecs, declaredOps, pid, schemaCache, cli, hist>>

\* every describe callback has returned: the runner starts the test bodies
EndDeclaration ==
  /\ phase = "declare"
  /\ Len(scopeStack) = 0
  /\ phase' = "run"
  /\ declaredSpecs' = [i \in 1..Len(apiSpecs) |-> SpecJson(apiSpecs[i], paramHeap)]
  /\ UNCHANGED <<currentApiSpec, paramHeap, respHeap, scopeStack, tests, testIdx,
                 apiSpecs, specCache, saveTimeout, timers, lastFileRead, enableFilePersistence, isCleaningUp,
                 specsFile, document, documentCache, declaredOps, pid, schemaCache, cli, hist, nCalls, lastSubmit>>

\* does the it() callback of this test capture what its test body resolves to
Captures(t) ==
  /\ Truthy(t.testCallback)
  /\ Truthy(OptGet(t.responseOptions, "captureResponse"))
  /\ Truthy(t.testCallback.result)
  /\ IsObjectType(t.testCallback.result)

\* the updatedResponse of a capturing test
UpdatedResponse(t) ==
  LET safeResult == extractSafeResponse(t.testCallback.result)
      capturedSchema == generateSchemaFromResponse(safeResult, 0)
      capturedContent == jsonContent(capturedSchema, safeResult)
  IN ResponseObj(t.desc, capturedContent, OptGet(t.responseOptions, "headers"))

\* the it() callback of the next registered test runs to its end
RunTest ==
  /\ phase = "run"
  /\ testIdx < Len(tests)
  /\ LET t == tests[testIdx + 1]
     IN /\ IF Captures(t)
           THEN LET rid == IF currentApiSpec.responses = 0 THEN Len(respHeap) + 1
                           ELSE currentApiSpec.responses
                    rh0 == IF currentApiSpec.responses = 0
                           THEN Append(respHeap, EmptyObj) ELSE respHeap
                    rh1 == [rh0 EXCEPT ![rid] = ObjSet(@, t.responseKey, UpdatedResponse(t))]
                    updatedSpecSnapshot == [t.specSnapshot EXCEPT !.responses = rh1[rid]]
                IN /\ respHeap' = rh1
                   /\ currentApiSpec' = [currentApiSpec EXCEPT !.responses = rid]
                   /\ SetAcc(addApiSpec(Acc, updatedSpecSnapshot, paramHeap))
                   /\ lastSubmit' =
                        [by |-> "capture", test |-> testIdx + 1,
                         spec |-> updatedSpecSnapshot,
                         json |-> SpecJson(updatedSpecSnapshot, paramHeap), op |-> t.op,
                         enclosingPath |-> Undefined, enclosingParams |-> <<>>]
           ELSE UNCHANGED <<respHeap, currentApiSpec, apiSpecs, specCache, saveTimeout, timers, lastFileRead,
                            enableFilePersistence, isCleaningUp, specsFile, lastSubmit>>
        /\ tests' = [tests EXCEPT ![testIdx + 1].completed = TRUE]
  /\ testIdx' = testIdx + 1
  /\ UNCHANGED <<scopeStack, paramHeap, phase, document, documentCache, declaredSpecs,
                 declaredOps, pid, schemaCache, cli, hist, nCalls>>

\* the next registered test is skipped, fails or times out before its body returns
TestNotCompleted ==
  /\ phase = "run"
  /\ testIdx < Len(tests)
  /\ testIdx' = testIdx + 1
  /\ UNCHANGED <<currentApiSpec, scopeStack, paramHeap, respHeap, tests, phase,
                 apiSpecs, specCache, saveTimeout, timers, lastFileRead, enableFilePersistence, isCleaningUp,
                 specsFile, document, documentCache, declaredSpecs, declaredOps, pid, schemaCache, cli, hist, nCalls, lastSubmit>>

(***************************************************************************)
(* The document generator (src/src/generator/openapi-generator.ts)         *)
(***************************************************************************)
NoDocument == [t |-> "none"]
NoCache == [t |-> "null"]

\* history: no call of generateDocument yet
NoHist == [prevDocument |-> NoDocument, prevSpecs |-> <<>>, specs |-> <<>>]

\* the configuration of defaultGenerator
GeneratorConfig ==
  [title |-> "API Documentation", version |-> "1.0.0",
   description |-> JStr("Generated by jest-swag"),
   servers |-> JArr(<<JObj(<<Field("url", JStr("http://localhost:3000")),
                             Field("description", JStr("Development server"))>>)>>)]

\* key.indexOf(c), 0-based; -1 when c does not occur
IndexOfChar(key, c) ==
  IF \E i \in 1..Len(key) : key[i] = c
  THEN (CHOOSE i \in 1..Len(key) : key[i] = c /\ \A j \in 1..(i - 1) : key[j] # c) - 1
  ELSE -1

\* key.substring(from, to) and key.substring(from), 0-based
Substring(key, from, to) == SubSeq(key, from + 1, to)
SubstringFrom(key, from) == SubSeq(key, from + 1, Len(key))

\* a rendering that leaves every response key as it is
DisplayKeyUnchanged(key) == key

\* the document key of a response key: "200-1" becomes "200 (1)"
DisplayKey(key) ==
  LET hasDash == IndexOfChar(key, "-") # -1
      actualStatusCode == IF hasDash THEN Substring(key, 0, IndexOfChar(key, "-"))
                          ELSE key
  IN actualStatusCode
     \o (IF hasDash
         THEN <<" ", "(">> \o SubstringFrom(key, IndexOfChar(key, "-") + 1) \o <<")">>
         ELSE <<>>)

RECURSIVE ProcessResponses(_, _)
\* processedResponses after the first n keys of spec.responses
ProcessResponses(responses, n) ==
  IF n = 0 THEN EmptyObj
  ELSE ObjSet(ProcessResponses(responses, n - 1),
              DisplayKey(responses.v[n].k), responses.v[n].v)

DefaultResponses ==
  JObj(<<Field(<<"2", "0", "0">>,
               JObj(<<Field("description", JStr("Success"))>>))>>)

\* an Operation object whose responses may be empty
OperationWithoutDefault(spec) ==
  [summary |-> spec.summary, description |-> spec.description, tags |-> spec.tags,
   parameters |-> spec.parameters,
   responses |-> IF Truthy(spec.responses)
                 THEN ProcessResponses(spec.responses, Len(spec.responses.v))
                 ELSE EmptyObj,
   requestBody |-> IF Truthy(spec.requestBody) THEN spec.requestBody ELSE Undefined,
   security |-> IF Truthy(spec.security) THEN spec.security ELSE Undefined]

\* the Operation object built for one spec
Operation(spec) ==
  LET processedResponses ==
        IF Truthy(spec.responses) THEN ProcessResponses(spec.responses, Len(spec.responses.v))
        ELSE EmptyObj
  IN [summary |-> spec.summary, description |-> spec.description, tags |-> spec.tags,
      parameters |-> spec.parameters,
      responses |-> IF Len(processedResponses.v) > 0 THEN processedResponses
                    ELSE DefaultResponses,
      requestBody |-> IF Truthy(spec.requestBody) THEN spec.requestBody ELSE Undefined,
      security |-> IF Truthy(spec.security) THEN spec.security ELSE Undefined]

\* Map.prototype.set on a map kept as a sequence of entries in insertion order
EntrySet(m, k, v) ==
  IF \E i \in 1..Len(m) : m[i].k = k
  THEN [i \in 1..Len(m) |-> IF m[i].k = k THEN Field(k, v) ELSE m[i]]
  ELSE Append(m, Field(k, v))

EntryGet(m, k) == m[CHOOSE i \in 1..Len(m) : m[i].k = k].v
EntryHas(m, k) == \E i \in 1..Len(m) : m[i].k = k

RECURSIVE PathGroups(_, _), PathGroupsFirstWins(_, _)
\* a grouping that keeps the first spec of every path and method
PathGroupsFirstWins(list, n) ==
  IF n = 0 THEN <<>>
  ELSE LET groups == PathGroupsFirstWins(list, n - 1)
           spec == list[n]
           methods == IF EntryHas(groups, spec.path) THEN EntryGet(groups, spec.path)
                      ELSE <<>>
       IN IF EntryHas(methods, spec.method) THEN groups
          ELSE EntrySet(groups, spec.path, EntrySet(methods, spec.method, spec))

\* pathGroups after the first n specs: path -> (method -> spec)
PathGroups(list, n) ==
  IF n = 0 THEN <<>>
  ELSE LET groups == PathGroups(list, n - 1)
           spec == list[n]
           methods == IF EntryHas(groups, spec.path) THEN EntryGet(groups, spec.path)
                      ELSE <<>>
       IN EntrySet(groups, spec.path, EntrySet(methods, spec.method, spec))

\* document.paths: a property per path group, a property per method in it
DocumentPaths(list) ==
  LET groups == PathGroups(list, Len(list))
  IN [i \in 1..Len(groups) |->
        Field(TemplateStr(groups[i].k),
              [j \in 1..Len(groups[i].v) |->
                 Field(TemplateStr(groups[i].v[j].k), Operation(groups[i].v[j].v))])]

BuildDocument(list, config) ==
  [openapi |-> "3.0.3",
   info |-> [title |-> config.title, version |-> config.version,
             description |-> config.description],
   servers |-> IF Truthy(config.servers) THEN config.servers ELSE Undefined,
   paths |-> DocumentPaths(list)]

\* a comparison of the lengths only
areSpecsEqualByLength(specs1, specs2, heap) == Len(specs1) = Len(specs2)

areSpecsEqual(specs1, specs2, heap) ==
  /\ Len(specs1) = Len(specs2)
  /\ \A i \in 1..Len(specs1) :
       Serialize(SpecJson(specs1[i], heap)) = Serialize(SpecJson(specs2[i], heap))

\* a generator whose cache keeps the document it replaced
generateDocumentStaleCache ==
  /\ phase = "run"
  /\ testIdx = Len(tests)
  /\ IF documentCache # NoCache /\ areSpecsEqual(documentCache.specs, apiSpecs, paramHeap)
     THEN /\ document' = documentCache.document
          /\ UNCHANGED documentCache
     ELSE /\ document' = BuildDocument(apiSpecs, GeneratorConfig)
          /\ documentCache' = [specs |-> apiSpecs, document |-> document]
  /\ hist' = [prevDocument |-> document, prevSpecs |-> hist.specs,
              specs |-> [i \in 1..Len(apiSpecs) |-> SpecJson(apiSpecs[i], paramHeap)]]
  /\ UNCHANGED <<currentApiSpec, scopeStack, paramHeap, respHeap, tests, phase, testIdx,
                 apiSpecs, specCache, saveTimeout, timers, lastFileRead, enableFilePersistence, isCleaningUp,
                 specsFile, declaredSpecs, declaredOps, pid, schemaCache, cli, nCalls, lastSubmit>>

generateDocument ==
  /\ phase = "run"
  /\ testIdx = Len(tests)
  /\ IF documentCache # NoCache /\ areSpecsEqual(documentCache.specs, apiSpecs, paramHeap)
     THEN /\ document' = documentCache.document
          /\ UNCHANGED documentCache
     ELSE /\ document' = BuildDocument(apiSpecs, GeneratorConfig)
          /\ documentCache' = [specs |-> apiSpecs,
                               document |-> BuildDocument(apiSpecs, GeneratorConfig)]
  /\ hist' = [prevDocument |-> document, prevSpecs |-> hist.specs,
              specs |-> [i \in 1..Len(apiSpecs) |-> SpecJson(apiSpecs[i], paramHeap)]]
  /\ UNCHANGED <<currentApiSpec, scopeStack, paramHeap, respHeap, tests, phase, testIdx,
                 apiSpecs, specCache, saveTimeout, timers, lastFileRead, enableFilePersistence, isCleaningUp,
                 specsFile, declaredSpecs, declaredOps, pid, schemaCache, cli, nCalls, lastSubmit>>

(***************************************************************************)
(* The two processes                                                       *)
(***************************************************************************)
\* the process ids the operating system hands out
Pids == {4001, 4002}

\* the generation process has not started
NoCli == [pc |-> "notStarted"]

\* process.cwd() of both processes, "/srv/app", as its char codes
Cwd == <<47, 115, 114, 118, 47, 97, 112, 112>>

\* the 32-bit integer of hi * 2^16 + lo, for lo >= 0
ToInt32(hi, lo) ==
  LET high == (hi + (lo \div 65536)) % 65536
  IN (IF high >= 32768 THEN high - 65536 ELSE high) * 65536 + (lo % 65536)

\* hashCode after the first n characters: ((hash << 5) - hash) + char, hash & hash,
\* computed on the two 16-bit halves of hash
RECURSIVE HashPrefix(_, _)
HashPrefix(str, n) ==
  IF n = 0 THEN 0
  ELSE LET hash == HashPrefix(str, n - 1)
           hi == hash \div 65536
           lo == hash % 65536
       IN ToInt32(32 * hi - hi, (32 * lo - lo) + str[n])

hashCode(str) == HashPrefix(str, Len(str))

Base36Chars ==
  <<"0", "1", "2", "3", "4", "5", "6", "7", "8", "9", "a", "b", "c", "d", "e", "f",
    "g", "h", "i", "j", "k", "l", "m", "n", "o", "p", "q", "r", "s", "t", "u", "v",
    "w", "x", "y", "z">>

\* Number.prototype.toString(36) of a non-negative integer
RECURSIVE ToString36(_)
ToString36(n) ==
  IF n < 36 THEN <<Base36Chars[n + 1]>>
  ELSE ToString36(n \div 36) \o <<Base36Chars[(n % 36) + 1]>>

MathAbs(n) == IF n < 0 THEN 0 - n ELSE n

\* the name of the spec file in os.tmpdir(), as utils computes it
getSpecsFilePath(cwd, processId) ==
  <<"j", "e", "s", "t", "-", "s", "w", "a", "g", "-", "s", "p", "e", "c", "s", "-">>
    \o ToString36(MathAbs(hashCode(cwd))) \o <<"-">> \o NumToChars(processId)
    \o <<".", "j", "s", "o", "n">>

\* the name of the spec file in os.tmpdir(), as the command line tool computes it
getTempSpecsFilePath(cwd, processId) ==
  <<"j", "e", "s", "t", "-", "s", "w", "a", "g", "-", "s", "p", "e", "c", "s", "-">>
    \o ToString36(MathAbs(hashCode(cwd))) \o <<"-">> \o NumToChars(processId)
    \o <<".", "j", "s", "o", "n">>

\* SPECS_FILE of the test process
SPECS_FILE == getSpecsFilePath(Cwd, pid)

\* a file whose content is not JSON
Malformed == [t |-> "malformed"]

\* the file of a name in os.tmpdir(): the only file there is the one the test process
\* writes
FileAt(name) == IF name = SPECS_FILE THEN specsFile ELSE NoFile

\* JSON.parse of a file: the value, or a SyntaxError
JsonParse(file) ==
  IF file = Malformed THEN [threw |-> TRUE, value |-> Undefined]
  ELSE [threw |-> FALSE, value |-> file]

\* the object JSON.parse makes of the i-th element of a saved list; its parameters
\* array is the i-th of the heap of the process
ParsedSpec(obj, i) ==
  [oid |-> i, path |-> ObjGet(obj, "path"), method |-> ObjGet(obj, "method"),
   summary |-> ObjGet(obj, "summary"), description |-> ObjGet(obj, "description"),
   tags |-> ObjGet(obj, "tags"),
   parameters |-> IF ObjHas(obj, "parameters") THEN i ELSE 0,
   requestBody |-> ObjGet(obj, "requestBody"), responses |-> ObjGet(obj, "responses"),
   security |-> ObjGet(obj, "security")]

ParsedHeap(list) ==
  [i \in 1..Len(list) |->
     IF ObjHas(list[i], "parameters") THEN ObjGet(list[i], "parameters").v ELSE <<>>]

\* the greatest identity a stored object has
MaxOid(a) ==
  LET used == {a.apiSpecs[i].oid : i \in 1..Len(a.apiSpecs)}
              \cup {a.specCache[k].oid : k \in DOMAIN a.specCache} \cup {0}
  IN CHOOSE n \in used : \A m \in used : m <= n

\* specs.forEach(spec => { if (!specCache.has(key)) specCache.set(key, spec) }) for
\* the first n specs
RECURSIVE IndexUnseen(_, _, _)
IndexUnseen(cache, specs, n) ==
  IF n = 0 THEN cache
  ELSE LET before == IndexUnseen(cache, specs, n - 1)
           key == getSpecKey(specs[n])
       IN IF key \in DOMAIN before THEN before ELSE MapSet(before, key, specs[n])

\* loadSpecsFromFile() of a process whose parameters arrays are in heap: the list it
\* returns and the state it leaves. lastFileRead.sameMtime stands for the comparison
\* of the modification time of the file with the one of the last read; an array is
\* allocated for the parameters of the parsed specs only when one of them has
\* parameters; every error is caught
loadSpecsFromFile(a, heap) ==
  LET file == a.specsFile
      unchanged == [threw |-> FALSE, specs |-> <<>>, acc |-> a, heap |-> heap]
  IN IF file = NoFile THEN unchanged
     ELSE IF a.lastFileRead # NoFileRead /\ a.lastFileRead.sameMtime
     THEN [unchanged EXCEPT !.specs = a.lastFileRead.specs]
     ELSE IF JsonParse(file).threw THEN unchanged
     ELSE LET list == JsonParse(file).value.v
              specs == [i \in 1..Len(list) |->
                          [ParsedSpec(list[i], i) EXCEPT
                             !.oid = MaxOid(a) + i,
                             !.parameters = IF @ = 0 THEN 0 ELSE Len(heap) + i]]
              hasParameters == \E i \in 1..Len(list) : ObjHas(list[i], "parameters")
          IN [threw |-> FALSE, specs |-> specs,
              acc |-> [a EXCEPT !.lastFileRead = [sameMtime |-> TRUE, specs |-> specs],
                                !.specCache = IndexUnseen(a.specCache, specs, Len(specs))],
              heap |-> IF hasParameters THEN heap \o ParsedHeap(list) ELSE heap]

\* the accumulator of a process that has just loaded utils
FreshAcc(file) ==
  [apiSpecs |-> <<>>, specCache |-> [k \in {} |-> EmptySpec], saveTimeout |-> FALSE,
   timers |-> NoTimers, lastFileRead |-> NoFileRead,
   enableFilePersistence |-> TRUE, isCleaningUp |-> FALSE, specsFile |-> file]

\* clearApiSpecs(); savedSpecs.forEach(spec => apiSpecs.push(spec))
ImportSaved(a, savedSpecs) ==
  [clearApiSpecs(a) EXCEPT
     !.apiSpecs = [i \in 1..Len(savedSpecs) |-> ParsedSpec(savedSpecs[i], i)]]

\* the config the generate command builds from its options
CliConfig(server) ==
  [title |-> "API Documentation", version |-> "1.0.0", description |-> Undefined,
   servers |-> JArr([i \in 1..Len(server) |->
                       JObj(<<Field("url", JStr(server[i])),
                              Field("description", JStr("Server: " \o server[i]))>>)])]

\* a writeDocument that catches the error of the write
writeDocumentSwallows(doc, writable) ==
  [threw |-> FALSE, outputFile |-> IF writable THEN doc ELSE NoFile]

\* writeDocument(doc): fs.writeFileSync throws when the output path is not writable
writeDocument(doc, writable) ==
  [threw |-> ~writable, outputFile |-> IF writable THEN doc ELSE NoFile]

\* generate() of a new generator: the promise it returns and the file it leaves
generate(list, config, writable) ==
  LET doc == BuildDocument(list, config)
      written == writeDocument(doc, writable)
  IN [rejected |-> written.threw,
      document |-> IF written.threw THEN NoDocument ELSE doc,
      outputFile |-> written.outputFile]

\* the action of the generate command in process p
CliOutcome(p, server, writable) ==
  LET specsPath == getTempSpecsFilePath(Cwd, p)
      file == FileAt(specsPath)
      exists == file # NoFile
      parsed == JsonParse(file)
      threw == exists /\ parsed.threw
      imported == exists /\ ~parsed.threw
      savedSpecs == IF imported THEN parsed.value.v ELSE <<>>
      acc == IF imported THEN ImportSaved(FreshAcc(file), savedSpecs)
             ELSE FreshAcc(file)
      called == ~threw /\ Len(acc.apiSpecs) > 0
      result == generate(acc.apiSpecs, CliConfig(server), writable)
  IN [pc |-> "done", pid |-> p, server |-> server, writable |-> writable,
      saved |-> specsFile,
      specsPath |-> specsPath, file |-> file, imported |-> imported,
      savedSpecs |-> savedSpecs, apiSpecs |-> acc.apiSpecs,
      specCache |-> acc.specCache, heap |-> ParsedHeap(savedSpecs),
      generateCalled |-> called,
      rejected |-> called /\ result.rejected,
      document |-> IF called THEN result.document ELSE NoDocument,
      outputFile |-> IF called THEN result.outputFile ELSE NoFile,
      exitCode |-> IF threw \/ (called /\ result.rejected) THEN 1 ELSE 0]

(***************************************************************************)
(* One test file: its declaration phase, then its test bodies              *)
(***************************************************************************)
Init ==
  /\ currentApiSpec = EmptySpec
  /\ scopeStack = <<>>
  /\ paramHeap = <<>>
  /\ respHeap = <<>>
  /\ tests = <<>>
  /\ phase = "declare"
  /\ testIdx = 0
  /\ apiSpecs = <<>>
  /\ specCache = [k \in {} |-> EmptySpec]
  /\ saveTimeout = FALSE
  /\ timers = NoTimers
  /\ lastFileRead = NoFileRead
  /\ enableFilePersistence = TRUE
  /\ isCleaningUp = FALSE
  /\ specsFile = NoFile
  /\ document = NoDocument
  /\ documentCache = NoCache
  /\ declaredSpecs = <<>>
  /\ declaredOps = <<>>
  /\ nCalls = 0
  /\ lastSubmit = NoSubmit
  /\ pid = CHOOSE p \in Pids : TRUE
  /\ cli = NoCli
  /\ hist = NoHist
  /\ schemaCache = NoSchemas

\* test files that declare operations with responses and run their test bodies
Next ==
  \/ /\ nCalls < MaxCalls
     /\ \/ \E p \in RunPaths : PathEnter(p)
        \/ \E m \in Methods, s \in Summaries : OperationEnter(m, s)
        \/ /\ Len(tests) < MaxTests
           /\ \E c \in StatusCodes, d \in ResponseDescs, a \in ResponseCalls :
                response(c, d, a[1], a[2])
  \/ ScopeExit
  \/ EndDeclaration
  \/ RunTest
  \/ TestNotCompleted
  \/ generateDocument

Spec == Init /\ [][Next]_vars

\* the declaration phase of test files that use every call of the DSL
DeclNext ==
  \/ /\ nCalls < DeclMaxCalls
     /\ \/ \E p \in Paths : PathEnter(p)
        \/ \E m \in DeclMethods, s \in Summaries : OperationEnter(m, s)
        \/ \E t \in TagLists : tags(t)
        \/ \E d \in DeclDescriptions : description(d)
        \/ \E b \in Bodies : requestBody(b)
        \/ /\ TotalLen(paramHeap) < MaxParams
           /\ \E p \in Params : parameter(p)
        \/ /\ Len(tests) < MaxTests
           /\ \E c \in DeclStatusCodes, d \in ResponseDescs :
                response(c, d, Undefined, Undefined)
  \/ ScopeExit

DeclSpec == Init /\ [][DeclNext]_vars

\* the arguments of the tags() calls of a test file that tags an operation more
\* than once
OperationTagLists == {<<"users">>, <<"admin", "beta">>, <<"internal">>}

\* test files with paths, operations in them, and tags() and response() calls in the
\* operations
TagNext ==
  \/ /\ nCalls < DeclMaxCalls
     /\ \/ Len(scopeStack) = 0 /\ \E p \in Paths : PathEnter(p)
        \/ Len(scopeStack) = 1 /\ \E m \in DeclMethods, s \in Summaries : OperationEnter(m, s)
        \/ Len(scopeStack) = 2 /\ \E t \in OperationTagLists : tags(t)
        \/ /\ Len(scopeStack) = 2
           /\ Len(tests) < MaxTests
           /\ \E c \in DeclStatusCodes, d \in ResponseDescs :
                response(c, d, Undefined, Undefined)
  \/ ScopeExit

TagSpec == Init /\ [][TagNext]_vars

\* test files none of whose test bodies completes
SkipNext ==
  \/ /\ nCalls < SkipMaxCalls
     /\ \/ \E p \in RunPaths : PathEnter(p)
        \/ \E m \in DeclMethods, s \in Summaries : OperationEnter(m, s)
        \/ \E d \in Descriptions : description(d)
        \/ /\ Len(tests) < MaxTests
           /\ \E c \in DeclStatusCodes, d \in ResponseDescs, a \in SkipResponseCalls :
                response(c, d, a[1], a[2])
  \/ ScopeExit
  \/ EndDeclaration
  \/ TestNotCompleted

SkipSpec == Init /\ [][SkipNext]_vars

(***************************************************************************)
(* The older response() of src/src/matchers/index.ts:107-153               *)
(***************************************************************************)
\* response(statusCode, desc, callback): the synchronous part
responseLegacy(statusCode, desc, callback) ==
  /\ phase = "declare"
  /\ nCalls' = nCalls + 1
  /\ LET rid == IF currentApiSpec.responses = 0 THEN Len(respHeap) + 1
                ELSE currentApiSpec.responses
         rh0 == IF currentApiSpec.responses = 0 THEN Append(respHeap, EmptyObj)
                ELSE respHeap
         responseObj == JObj(<<Field("description", JStr(desc))>>)
         responseKey == NumToChars(statusCode)
         rh1 == [rh0 EXCEPT ![rid] = ObjSet(@, responseKey, responseObj)]
         specSnapshot == Snapshot(currentApiSpec, rh1[rid])
         submit == Truthy(specSnapshot.path) /\ Truthy(specSnapshot.method)
     IN /\ respHeap' = rh1
        /\ currentApiSpec' = [currentApiSpec EXCEPT !.responses = rid]
        /\ SetAcc(IF submit THEN addApiSpec(Acc, specSnapshot, paramHeap) ELSE Acc)
        /\ tests' = Append(tests,
                           [statusCode |-> statusCode, desc |-> desc,
                            responseOptions |-> Undefined, testCallback |-> callback,
                            responseKey |-> responseKey, specSnapshot |-> specSnapshot,
                            op |-> CurrentOp, responseObj |-> responseObj,
                            completed |-> FALSE])
        /\ lastSubmit' =
             IF submit
             THEN [by |-> "response", test |-> Len(tests) + 1, spec |-> specSnapshot,
                   json |-> SpecJson(specSnapshot, paramHeap), op |-> CurrentOp,
                   enclosingPath |-> EnclosingPath, enclosingParams |-> EnclosingParams]
             ELSE lastSubmit
  /\ UNCHANGED <<scopeStack, paramHeap, phase, testIdx, document, documentCache,
                 declaredSpecs, declaredOps, pid, schemaCache, cli, hist>>

\* the it() callback of the older response(): it only calls the test body
RunTestLegacy ==
  /\ phase = "run"
  /\ testIdx < Len(tests)
  /\ tests' = [tests EXCEPT ![testIdx + 1].completed = TRUE]
  /\ testIdx' = testIdx + 1
  /\ UNCHANGED <<currentApiSpec, scopeStack, paramHeap, respHeap, phase,
                 apiSpecs, specCache, saveTimeout, timers, lastFileRead, enableFilePersistence, isCleaningUp,
                 specsFile, document, documentCache, declaredSpecs, declaredOps, pid, schemaCache, cli, hist, nCalls, lastSubmit>>

\* test files written against src/src/matchers/index.ts
LegacyNext ==
  \/ /\ nCalls < MaxCalls
     /\ \/ \E p \in RunPaths : PathEnter(p)
        \/ \E m \in DeclMethods, s \in Summaries : OperationEnter(m, s)
        \/ /\ Len(tests) < MaxTests
           /\ \E c \in StatusCodes, d \in LegacyDescs :
                responseLegacy(c, d, Fn(Undefined))
  \/ ScopeExit
  \/ EndDeclaration
  \/ RunTestLegacy
  \/ TestNotCompleted

LegacySpec == Init /\ [][LegacyNext]_vars

(***************************************************************************)
(* A process that calls the accumulator directly                           *)
(***************************************************************************)
SampleResponses ==
  {Undefined,
   JObj(<<Field(<<"2", "0", "0">>, ResponseObj("ok", Undefined, Undefined))>>),
   JObj(<<Field(<<"2", "0", "0">>, ResponseObj("OK", Undefined, Undefined))>>),
   JObj(<<Field(<<"2", "0", "0">>, ResponseObj("ok", DeclaredContent, Undefined))>>)}

\* the spec objects a caller passes to addApiSpec
SampleSpecs ==
  {[path |-> JStr(p), method |-> JStr("get"), summary |-> s, description |-> Undefined,
    tags |-> Undefined, parameters |-> 0, requestBody |-> Undefined,
    responses |-> r, security |-> Undefined] :
     p \in Paths, s \in {JStr("list")}, r \in SampleResponses}

\* a direct call addApiSpec(spec)
AddApiSpecCall(spec) ==
  /\ SetAcc(addApiSpec(Acc, spec, paramHeap))
  /\ lastSubmit' = [by |-> "api", test |-> 0, spec |-> spec,
                    json |-> SpecJson(spec, paramHeap), op |-> 0,
                    enclosingPath |-> Undefined, enclosingParams |-> <<>>,
                    cleared |-> IF lastSubmit.by = "clear" THEN lastSubmit ELSE NoSubmit]
  /\ UNCHANGED <<currentApiSpec, scopeStack, paramHeap, respHeap, tests, phase,
                 testIdx, document, documentCache, declaredSpecs, declaredOps, pid, schemaCache, cli, hist, nCalls>>

AccNext ==
  \/ \E spec \in SampleSpecs : AddApiSpecCall(spec)
  \/ EndDeclaration
  \/ SaveTimerFires

AccSpec == Init /\ [][AccNext]_vars

\* a direct call clearApiSpecs()
ClearApiSpecsCall ==
  /\ SetAcc(clearApiSpecs(Acc))
  /\ lastSubmit' = [by |-> "clear", seen |-> DOMAIN specCache,
                    hadFile |-> specsFile # NoFile, hadTimer |-> saveTimeout]
  /\ UNCHANGED <<currentApiSpec, scopeStack, paramHeap, respHeap, tests, phase,
                 testIdx, document, documentCache, declaredSpecs, declaredOps, nCalls,
                 pid, schemaCache, cli, hist>>

\* a responses object in which one status code was declared three times
ThreeResponses ==
  JObj(<<Field(<<"2", "0", "0">>, ResponseObj("ok", Undefined, Undefined)),
         Field(<<"2", "0", "0", "-", "1">>, ResponseObj("fine", Undefined, Undefined)),
         Field(<<"2", "0", "0", "-", "2">>, ResponseObj("good", Undefined, Undefined))>>)

\* path, summary and responses of the specs a caller passes to addApiSpec: two
\* summaries of GET /a, an empty responses object and a spec without responses
GenArguments ==
  {<<"/a", "list", ThreeResponses>>, <<"/a", "all", EmptyObj>>,
   <<"/b", "list", Undefined>>, <<"/b", "list", ThreeResponses>>}

GenSpecs ==
  {[path |-> JStr(x[1]), method |-> JStr("get"), summary |-> JStr(x[2]),
    description |-> Undefined, tags |-> Undefined, parameters |-> 0,
    requestBody |-> Undefined, responses |-> x[3], security |-> Undefined] :
     x \in GenArguments}

\* a process that fills and renders the collection
GenNext ==
  \/ \E spec \in GenSpecs : AddApiSpecCall(spec)
  \/ EndDeclaration
  \/ generateDocument

GenSpec == Init /\ [][GenNext]_vars

\* the specs a caller passes to addApiSpec between the calls of generateDocument:
\* a sparser and a richer spec of GET /b and a spec of GET /a
CacheSpecs ==
  {spec \in GenSpecs : spec.path = JStr("/b") \/ spec.responses = EmptyObj}

\* a process that fills, resets and renders the collection with one generator
CacheNext ==
  \/ \E spec \in CacheSpecs : AddApiSpecCall(spec)
  \/ ClearApiSpecsCall
  \/ EndDeclaration
  \/ generateDocument

CacheSpec == Init /\ [][CacheNext]_vars

\* a process that fills and resets the collection
ClearNext ==
  \/ \E spec \in GenSpecs : AddApiSpecCall(spec)
  \/ ClearApiSpecsCall
  \/ EndDeclaration
  \/ SaveTimerFires

ClearSpec == Init /\ [][ClearNext]_vars

\* direct calls of the persistence functions
SaveSpecsToFileCall ==
  /\ SetAcc(saveSpecsToFile(IF Writes(Acc) THEN NoteWrite(Acc) ELSE Acc, paramHeap))
  /\ UNCHANGED <<currentApiSpec, scopeStack, paramHeap, respHeap, tests, phase, testIdx,
                 document, documentCache, declaredSpecs, declaredOps, nCalls,
                 lastSubmit, pid, schemaCache, cli, hist>>

StopFileWritesCall ==
  /\ SetAcc(stopFileWrites(Acc))
  /\ UNCHANGED <<currentApiSpec, scopeStack, paramHeap, respHeap, tests, phase, testIdx,
                 document, documentCache, declaredSpecs, declaredOps, nCalls,
                 lastSubmit, pid, schemaCache, cli, hist>>

ResumeFileWritesCall ==
  /\ SetAcc(resumeFileWrites(NoteResume(Acc)))
  /\ UNCHANGED <<currentApiSpec, scopeStack, paramHeap, respHeap, tests, phase, testIdx,
                 document, documentCache, declaredSpecs, declaredOps, nCalls,
                 lastSubmit, pid, schemaCache, cli, hist>>

CleanupTempSpecFileCall ==
  /\ Len(timers.cleanup) < MaxCleanups
  /\ SetAcc(cleanupTempSpecFile(Acc))
  /\ UNCHANGED <<currentApiSpec, scopeStack, paramHeap, respHeap, tests, phase, testIdx,
                 document, documentCache, declaredSpecs, declaredOps, nCalls,
                 lastSubmit, pid, schemaCache, cli, hist>>

\* the callback of the oldest delayed delete: the file is removed if there is one
CleanupTimerFires ==
  /\ Len(timers.cleanup) > 0
  /\ phase = "run"
  /\ SetAcc([Acc EXCEPT !.specsFile = NoFile, !.timers.cleanup = Tail(@)])
  /\ lastSubmit' = [by |-> "cleanupDelete", removed |-> specsFile # NoFile,
                    resumed |-> Head(timers.cleanup).resumed,
                    written |-> Head(timers.cleanup).written]
  /\ UNCHANGED <<currentApiSpec, scopeStack, paramHeap, respHeap, tests, phase, testIdx,
                 document, documentCache, declaredSpecs, declaredOps, nCalls,
                 pid, schemaCache, cli, hist>>

\* the specs of a process that persists its collection: two keys, one of them
\* submitted in a smaller and in a larger form
PersistSpecs == {spec \in GenSpecs : spec.summary = JStr("list")}

\* a process that fills the collection and stops, resumes and cleans up its file
PersistNext ==
  \/ \E spec \in PersistSpecs : AddApiSpecCall(spec)
  \/ EndDeclaration
  \/ SaveTimerFires
  \/ SaveSpecsToFileCall
  \/ StopFileWritesCall
  \/ ResumeFileWritesCall
  \/ CleanupTempSpecFileCall
  \/ CleanupTimerFires

PersistSpec == Init /\ [][PersistNext]_vars

\* timers that are due fire, and the declaration phase ends
TimerFairness ==
  /\ WF_vars(EndDeclaration)
  /\ WF_vars(SaveTimerFires)
  /\ WF_vars(CleanupTimerFires)

PersistFairSpec == PersistSpec /\ TimerFairness

\* direct calls of the two switches of file persistence
DisableFilePersistenceCall ==
  /\ SetAcc(disableFilePersistence(Acc))
  /\ lastSubmit' = [by |-> "disable", hadTimer |-> saveTimeout, file |-> specsFile]
  /\ UNCHANGED <<currentApiSpec, scopeStack, paramHeap, respHeap, tests, phase, testIdx,
                 document, documentCache, declaredSpecs, declaredOps, nCalls,
                 pid, schemaCache, cli, hist>>

EnableFilePersistenceModeCall ==
  /\ SetAcc(enableFilePersistenceMode(Acc))
  /\ UNCHANGED <<currentApiSpec, scopeStack, paramHeap, respHeap, tests, phase, testIdx,
                 document, documentCache, declaredSpecs, declaredOps, nCalls,
                 lastSubmit, pid, schemaCache, cli, hist>>

\* a process that fills the collection and switches file persistence off and on
DisableNext ==
  \/ \E spec \in PersistSpecs : AddApiSpecCall(spec)
  \/ EndDeclaration
  \/ SaveTimerFires
  \/ SaveSpecsToFileCall
  \/ DisableFilePersistenceCall
  \/ EnableFilePersistenceModeCall
  \/ ResumeFileWritesCall

DisableSpec == Init /\ [][DisableNext]_vars

\* a process that fills the collection and never stops or cleans up
SaveNext ==
  \/ \E spec \in GenSpecs : AddApiSpecCall(spec)
  \/ EndDeclaration
  \/ SaveTimerFires

SaveSpec == Init /\ [][SaveNext]_vars

SaveFairSpec == SaveSpec /\ WF_vars(EndDeclaration) /\ WF_vars(SaveTimerFires)

\* the third and fourth argument of the response() calls of a test file that uses
\* every form of the call
OptionCalls ==
  {<<Fn(ResWrapped), Undefined>>,
   <<JObj(<<Field("captureResponse", JBool(TRUE))>>), Fn(ResWrapped)>>,
   <<JObj(<<Field("captureResponse", JBool(FALSE))>>), Fn(ResWrapped)>>,
   <<JObj(<<Field("headers", DeclaredHeaders)>>), Fn(ResWrapped)>>,
   <<JObj(<<Field("captureResponse", JBool(TRUE))>>), Undefined>>,
   <<Undefined, Undefined>>}

OptionNext ==
  \/ /\ nCalls < MaxCaptures + 2
     /\ \/ \E p \in RunPaths : PathEnter(p)
        \/ \E m \in DeclMethods, s \in Summaries : OperationEnter(m, s)
        \/ /\ Len(tests) < MaxCaptures
           /\ \E c \in DeclStatusCodes, d \in ResponseDescs, a \in OptionCalls :
                response(c, d, a[1], a[2])
  \/ ScopeExit
  \/ EndDeclaration
  \/ RunTest

OptionSpec == Init /\ [][OptionNext]_vars

\* results of the callbacks of a test file whose requests come back in the shapes of
\* supertest, axios and node responses
WrappedResults ==
  {JObj(<<Field("body", JObj(<<Field("id", JNum(1))>>)),
          Field("data", JObj(<<Field("age", JNum(30))>>))>>),
   JObj(<<Field("status", JNum(200)), Field("data", JObj(<<Field("age", JNum(30))>>))>>),
   JObj(<<Field("body", JNull), Field("data", JObj(<<Field("age", JNum(30))>>))>>),
   JObj(<<Field("status", JNum(201)),
          Field("headers", JObj(<<Field("content-type", JStr(<<"t", "e", "x", "t">>)),
                                  Field("x-count", JNum(3)),
                                  Field("set-cookie", JArr(<<JStr(<<"a", "=", "1">>)>>)),
                                  Field("x-cached", JBool(TRUE))>>))>>),
   JObj(<<Field("statusCode", JNum(404))>>),
   JObj(<<Field("status", JNum(0)), Field("statusCode", JNum(500)),
          Field("headers", JArr(<<JStr(<<"g", "z", "i", "p">>), JNull, JNum(7)>>))>>),
   JObj(<<Field("id", JNum(1)), Field("socket", EmptyObj)>>)}

\* a test file with one path, one operation in it and the responses in the operation
ExtractNext ==
  \/ /\ nCalls < MaxCaptures + 2
     /\ \/ Len(scopeStack) = 0 /\ \E p \in RunPaths : PathEnter(p)
        \/ Len(scopeStack) = 1 /\ \E m \in DeclMethods, s \in Summaries : OperationEnter(m, s)
        \/ /\ Len(scopeStack) = 2
           /\ Len(tests) < MaxCaptures
           /\ \E c \in DeclStatusCodes, d \in ResponseDescs, r \in WrappedResults :
                response(c, d, Fn(r), Undefined)
  \/ ScopeExit
  \/ EndDeclaration
  \/ RunTest

ExtractSpec == Init /\ [][ExtractNext]_vars

\* results of the callbacks of a test file whose requests come back with the
\* internals of the HTTP client: as a plain object, under body, under data, and
\* in the headers of a result with a status
InternalsResults ==
  {JObj(<<Field("id", JNum(1)), Field("socket", EmptyObj), Field("_events", JNum(2)),
          Field("user", JObj(<<Field("req", EmptyObj), Field("age", JNum(30))>>))>>),
   JObj(<<Field("body", JObj(<<Field("id", JNum(1)), Field("socket", EmptyObj)>>))>>),
   JObj(<<Field("data", JObj(<<Field("user", JObj(<<Field("_id", JNum(7))>>))>>))>>),
   JObj(<<Field("status", JNum(200)),
          Field("headers", JObj(<<Field("connection", JNum(5))>>))>>)}

\* a test file with one path, one operation in it and the responses in the operation
SanitizeNext ==
  \/ /\ nCalls < MaxCaptures + 2
     /\ \/ Len(scopeStack) = 0 /\ \E p \in RunPaths : PathEnter(p)
        \/ Len(scopeStack) = 1 /\ \E m \in DeclMethods, s \in Summaries : OperationEnter(m, s)
        \/ /\ Len(scopeStack) = 2
           /\ Len(tests) < MaxCaptures
           /\ \E c \in DeclStatusCodes, d \in ResponseDescs, r \in InternalsResults :
                response(c, d, Fn(r), Undefined)
  \/ ScopeExit
  \/ EndDeclaration
  \/ RunTest

SanitizeSpec == Init /\ [][SanitizeNext]_vars

\* strings that the callbacks of a test file return as the body of a response
\* "john@example.com"
EmailSample ==
  <<"j", "o", "h", "n", "@", "e", "x", "a", "m", "p", "l", "e", ".", "c", "o",
  "m">>
\* "2024-01-01"
DateSample ==
  <<"2", "0", "2", "4", "-", "0", "1", "-", "0", "1">>
\* "2024-01-01T00:00:00Z"
DateTimeSample ==
  <<"2", "0", "2", "4", "-", "0", "1", "-", "0", "1", "T", "0", "0", ":", "0",
  "0", ":", "0", "0", "Z">>
\* "123e4567-e89b-12d3-a456-426614174000"
UuidSample ==
  <<"1", "2", "3", "e", "4", "5", "6", "7", "-", "e", "8", "9", "b", "-", "1",
  "2", "d", "3", "-", "a", "4", "5", "6", "-", "4", "2", "6", "6", "1", "4", "1",
  "7", "4", "0", "0", "0">>
\* "http://a.io/x"
UrlSample ==
  <<"h", "t", "t", "p", ":", "/", "/", "a", ".", "i", "o", "/", "x">>
\* "10.0.0.1"
IPv4Sample ==
  <<"1", "0", ".", "0", ".", "0", ".", "1">>
\* "::1"
LoopbackSample ==
  <<":", ":", "1">>
\* "1:2:3:4:5:6:7:8"
IPv6Sample ==
  <<"1", ":", "2", ":", "3", ":", "4", ":", "5", ":", "6", ":", "7", ":", "8">>
\* "fe80:0:0:0:0:0:0:1"
LinkLocalSample ==
  <<"f", "e", "8", "0", ":", "0", ":", "0", ":", "0", ":", "0", ":", "0", ":",
  "0", ":", "1">>
\* "hello"
WordSample ==
  <<"h", "e", "l", "l", "o">>
\* "2024-13-45"
NoDateSample ==
  <<"2", "0", "2", "4", "-", "1", "3", "-", "4", "5">>
\* "http://u@h.io"
UrlWithUserSample ==
  <<"h", "t", "t", "p", ":", "/", "/", "u", "@", "h", ".", "i", "o">>
\* "256.1.1.1"
NoOctetSample ==
  <<"2", "5", "6", ".", "1", ".", "1", ".", "1">>
FormatSamples ==
  {EmailSample, DateSample, DateTimeSample, UuidSample,
   UrlSample, IPv4Sample, LoopbackSample, IPv6Sample,
   LinkLocalSample, WordSample, NoDateSample, UrlWithUserSample,
   NoOctetSample}

\* a test file with one path, one operation in it and the responses in the operation
FormatNext ==
  \/ /\ nCalls < MaxCaptures + 2
     /\ \/ Len(scopeStack) = 0 /\ \E p \in RunPaths : PathEnter(p)
        \/ Len(scopeStack) = 1 /\ \E m \in DeclMethods, s \in Summaries : OperationEnter(m, s)
        \/ /\ Len(scopeStack) = 2
           /\ Len(tests) < MaxCaptures
           /\ \E c \in DeclStatusCodes, d \in ResponseDescs, str \in FormatSamples :
                response(c, d, Fn(JObj(<<Field("body", JStr(str))>>)), Undefined)
  \/ ScopeExit
  \/ EndDeclaration
  \/ RunTest

FormatSpec == Init /\ [][FormatNext]_vars

\* a value under k objects nested one in the other
RECURSIVE Nest(_, _)
Nest(k, leaf) == IF k = 0 THEN leaf ELSE JObj(<<Field("n", Nest(k - 1, leaf))>>)

\* values to infer a schema from: a number or an object of ObjectTable under 0 to
\* MaxNesting objects, alone or next to a second reference to the same object
InferInputs ==
  {Nest(k, leaf) : k \in 0..MaxNesting,
                   leaf \in {JNum(1)} \cup {Ref(id) : id \in {1, 2, 4, 5}}}
  \cup {JObj(<<Field("p", Ref(id)), Field("q", Nest(k, Ref(id)))>>) :
          k \in 0..MaxNesting, id \in {1, 2, 4, 5}}
  \cup {JObj(<<Field("q", Nest(k, Ref(id))), Field("p", Ref(id))>>) :
          k \in 0..MaxNesting, id \in {1, 2, 4, 5}}

\* a call generateSchemaFromResponse(data)
InferSchema(data) ==
  /\ lastSubmit' = [by |-> "infer", data |-> data,
                    schema |-> generateSchemaFromResponse(data, 0),
                    threw |-> generateSchemaThrows(data, 0)]
  /\ UNCHANGED <<currentApiSpec, scopeStack, paramHeap, respHeap, tests, phase, testIdx,
                 apiSpecs, specCache, saveTimeout, timers, lastFileRead,
                 enableFilePersistence, isCleaningUp, specsFile, document,
                 documentCache, declaredSpecs, declaredOps, nCalls, pid, schemaCache, cli, hist>>

InferNext == \E data \in InferInputs : InferSchema(data)

InferSpec == Init /\ [][InferNext]_vars

\* values of the properties of a captured body: a number, null, a property whose
\* read throws, an object with such a property and an array with such an element
GetterValues ==
  {JNum(1), JNull, ThrowingGetter,
   JObj(<<Field("w", ThrowingGetter), Field("z", JNum(2))>>),
   JArr(<<ThrowingGetter>>)}

\* the bodies of captured results: objects of three properties and arrays
GetterInputs ==
  {JObj(<<Field("a", x), Field("b", y), Field("c", z)>>) : x, y, z \in GetterValues}
  \cup {JArr(<<x>>) : x \in GetterValues}
  \cup {JArr(<<JArr(<<ThrowingGetter>>)>>)}

GetterNext == \E data \in GetterInputs : InferSchema(data)

GetterSpec == Init /\ [][GetterNext]_vars

\* a call generateSchemaFromResponse(data) on a value whose objects of ObjectTable
\* live on after the call: schemaCache keeps what the call stores
InferSchemaOfShared(data) ==
  /\ lastSubmit' = [by |-> "inferShared", data |-> data,
                    schema |-> generateSchemaCached(data, {}, 0, schemaCache).schema,
                    threw |-> generateSchemaCached(data, {}, 0, schemaCache).threw]
  /\ schemaCache' = generateSchemaCached(data, {}, 0, schemaCache).schemaCache
  /\ UNCHANGED <<currentApiSpec, scopeStack, paramHeap, respHeap, tests, phase, testIdx,
                 apiSpecs, specCache, saveTimeout, timers, lastFileRead,
                 enableFilePersistence, isCleaningUp, specsFile, document,
                 documentCache, declaredSpecs, declaredOps, nCalls, pid, cli, hist>>

\* the values of the calls of a process that keeps its objects: each object of
\* ObjectTable alone, and the shared object under some new objects
SharedInputs ==
  {Ref(id) : id \in DOMAIN ObjectTable}
  \cup {Nest(k, Ref(5)) : k \in (MaxSchemaDepth - 2)..MaxSchemaDepth}

SharedNext == \E data \in SharedInputs : InferSchemaOfShared(data)

SharedSpec == Init /\ [][SharedNext]_vars

\* a direct call loadSpecsFromFile()
LoadSpecsFromFileCall ==
  /\ SetAcc(loadSpecsFromFile(Acc, paramHeap).acc)
  /\ paramHeap' = loadSpecsFromFile(Acc, paramHeap).heap
  /\ lastSubmit' = [by |-> "load", specs |-> loadSpecsFromFile(Acc, paramHeap).specs]
  /\ UNCHANGED <<currentApiSpec, scopeStack, respHeap, tests, phase, testIdx,
                 document, documentCache, declaredSpecs, declaredOps, nCalls,
                 pid, schemaCache, cli, hist>>

\* the worker goes on to its next test file: utils is loaded anew in the same
\* process, and the spec file of the process is still where the last test file left it
NextTestFile ==
  /\ phase = "run"
  /\ timers = NoTimers
  /\ specsFile # NoFile
  /\ SetAcc(FreshAcc(specsFile))
  /\ phase' = "declare"
  /\ lastSubmit' = [by |-> "nextTestFile"]
  /\ UNCHANGED <<currentApiSpec, scopeStack, paramHeap, respHeap, tests, testIdx,
                 document, documentCache, declaredSpecs, declaredOps, nCalls,
                 pid, schemaCache, cli, hist>>

\* a process that fills, resets and reloads the collection in one test file after
\* the other
LoadNext ==
  \/ \E spec \in PersistSpecs : AddApiSpecCall(spec)
  \/ ClearApiSpecsCall
  \/ LoadSpecsFromFileCall
  \/ EndDeclaration
  \/ SaveTimerFires
  \/ NextTestFile

LoadSpec == Init /\ [][LoadNext]_vars

\* the --server options of a run of the command line tool
ServerOptions == {<<>>, <<"http://localhost:3000">>}

\* jest-swag generate, run as process p; the spec file of its name is gone afterwards
CliGenerate(p, server, writable) ==
  /\ cli.pc = "notStarted"
  /\ cli' = CliOutcome(p, server, writable)
  /\ specsFile' = IF getTempSpecsFilePath(Cwd, p) = SPECS_FILE THEN NoFile ELSE specsFile
  /\ UNCHANGED <<currentApiSpec, scopeStack, paramHeap, respHeap, tests, phase, testIdx,
                 apiSpecs, specCache, saveTimeout, timers, lastFileRead, enableFilePersistence, isCleaningUp,
                 document, documentCache, declaredSpecs, declaredOps, nCalls,
                 lastSubmit, pid, schemaCache, hist>>

\* the spec file is cut short or overwritten by something that is not JSON
FileDamaged ==
  /\ specsFile \notin {NoFile, Malformed}
  /\ cli.pc = "notStarted"
  /\ specsFile' = Malformed
  /\ UNCHANGED <<currentApiSpec, scopeStack, paramHeap, respHeap, tests, phase, testIdx,
                 apiSpecs, specCache, saveTimeout, timers, lastFileRead, enableFilePersistence, isCleaningUp,
                 document, documentCache, declaredSpecs, declaredOps, nCalls,
                 lastSubmit, pid, schemaCache, cli, hist>>

\* a test process that fills the collection and a generation process
CliNext ==
  \/ \E spec \in GenSpecs : AddApiSpecCall(spec)
  \/ EndDeclaration
  \/ SaveTimerFires
  \/ FileDamaged
  \/ \E p \in Pids, server \in ServerOptions, writable \in BOOLEAN :
       CliGenerate(p, server, writable)

CliSpec == Init /\ [][CliNext]_vars

(***************************************************************************)
(* Properties                                                              *)
(***************************************************************************)
RetainedFor(key) == {i \in 1..Len(apiSpecs) : getSpecKey(apiSpecs[i]) = key}

\* C1: for a fixed identity key the spec retained in the collection is replaced only
\* by a strictly larger serialized spec; after a submission the retained spec is at
\* least as large as the submitted one, and its serialized size never decreases.
C1_ReplacedOnlyByLarger ==
  /\ [](lastSubmit.by = "api" =>
          \E i \in RetainedFor(getSpecKey(lastSubmit.spec)) :
            StringifyLen(apiSpecs[i], paramHeap) >= StringifyLen(lastSubmit.spec, paramHeap))
  /\ [][\A i \in 1..Len(apiSpecs) :
          /\ i <= Len(apiSpecs')
          /\ getSpecKey(apiSpecs'[i]) = getSpecKey(apiSpecs[i])
          /\ StringifyLen(apiSpecs'[i], paramHeap') >= StringifyLen(apiSpecs[i], paramHeap)
          /\ (apiSpecs'[i].oid # apiSpecs[i].oid =>
                StringifyLen(apiSpecs'[i], paramHeap') > StringifyLen(apiSpecs[i], paramHeap))
      ]_vars

\* a sparser spec was submitted after a richer one and the richer one is still retained
C1_Witness ==
  /\ lastSubmit.by = "api"
  /\ \E i \in RetainedFor(getSpecKey(lastSubmit.spec)) :
       StringifyLen(apiSpecs[i], paramHeap) > StringifyLen(lastSubmit.spec, paramHeap)

\* the response() calls made so far inside the operation() call with this identity
TestsOf(op) == {j \in 1..Len(tests) : tests[j].op = op}

\* the key the claim gives to response() call j: c for the first call with status
\* code c in its operation, c-(k-1) for the k-th
ExpectedKey(j) ==
  LET k == Cardinality({i \in TestsOf(tests[j].op) :
                          i < j /\ tests[i].statusCode = tests[j].statusCode})
  IN IF k = 0 THEN NumToChars(tests[j].statusCode)
     ELSE NumToChars(tests[j].statusCode) \o <<"-">> \o NumToChars(k)

\* C2: inside an operation the k-th response() of status code c is stored under c
\* (k = 1) or c-(k-1), no call overwrites an earlier one, and after n calls the
\* responses object of the operation has exactly n entries.
C2_ResponseKeysDistinct ==
  (phase = "declare" /\ CurrentOp # 0) =>
    LET responses == CursorResponses(currentApiSpec, respHeap)
    IN /\ Len(responses.v) = Cardinality(TestsOf(CurrentOp))
       /\ \A j \in TestsOf(CurrentOp) :
            ObjGet(responses, ExpectedKey(j)) = tests[j].responseObj

\* C3: after a capturing test body of an operation declared inside a path has run,
\* the collection's spec for the operation's identity key carries the captured
\* content under the response key of that test.
C3_CaptureSupersedes ==
  (lastSubmit.by = "capture" /\ lastSubmit.op # 0 /\ Truthy(lastSubmit.spec.path)) =>
    \E i \in RetainedFor(getSpecKey(lastSubmit.spec)) :
      /\ Truthy(apiSpecs[i].responses)
      /\ ObjGet(apiSpecs[i].responses, tests[lastSubmit.test].responseKey)
           = UpdatedResponse(tests[lastSubmit.test])

\* C4: the snapshot resubmitted after a capture in an operation has every response
\* key of the declaration-time snapshot of its response() call, and every entry of
\* it was declared or captured by a response() call of the same operation.
C4_ResubmittedSnapshotIsOwn ==
  (lastSubmit.by = "capture" /\ lastSubmit.op # 0 /\ Truthy(lastSubmit.spec.path)) =>
    LET t == tests[lastSubmit.test]
        r == lastSubmit.spec.responses
    IN /\ \A n \in 1..Len(t.specSnapshot.responses.v) :
            ObjHas(r, t.specSnapshot.responses.v[n].k)
       /\ \A n \in 1..Len(r.v) :
            \E j \in TestsOf(t.op) :
              /\ tests[j].responseKey = r.v[n].k
              /\ \/ r.v[n].v = tests[j].responseObj
                 \/ Captures(tests[j]) /\ r.v[n].v = UpdatedResponse(tests[j])

\* the operation() calls that share their identity key with no other operation() call
SoleOps ==
  {n \in 1..Len(declaredOps) :
     \A m \in 1..Len(declaredOps) :
       m # n => getSpecKey(declaredOps[m]) # getSpecKey(declaredOps[n])}

\* C5: when no test body of an operation has completed, the collection's spec for
\* the operation has every response declared in it, as the author declared it, and
\* is the spec the collection held when the declaration phase ended.  (Stated for
\* operations that share their identity key with no other operation() call.)
C5_DeclaredShapeStands ==
  phase = "run" =>
    \A n \in SoleOps :
      LET op == declaredOps[n]
          own == {j \in TestsOf(op.id) :
                    getSpecKey(tests[j].specSnapshot) = getSpecKey(op)}
      IN (own # {} /\ Truthy(op.path) /\ \A j \in TestsOf(op.id) : ~tests[j].completed) =>
           \E i \in RetainedFor(getSpecKey(op)) :
             /\ \A j \in own :
                  ObjGet(apiSpecs[i].responses, tests[j].responseKey) = tests[j].responseObj
             /\ i <= Len(declaredSpecs)
             /\ SpecJson(apiSpecs[i], paramHeap) = declaredSpecs[i]

\* C6: an operation declared inside a path with no response() call is in the
\* document, with the single response 200 "Success".  (Stated for operations that
\* share their identity key with no other operation() call.)
C6_NoResponseDefault ==
  document # NoDocument =>
    \A n \in SoleOps :
      LET op == declaredOps[n]
      IN (Truthy(op.path) /\ TestsOf(op.id) = {}) =>
           /\ EntryHas(document.paths, op.path.v)
           /\ EntryHas(EntryGet(document.paths, op.path.v), op.method.v)
           /\ EntryGet(EntryGet(document.paths, op.path.v), op.method.v).responses
                = DefaultResponses

\* C7: the collection never holds a spec whose path or method is absent.
C7_NoSpecWithoutIdentity ==
  \A i \in 1..Len(apiSpecs) : Truthy(apiSpecs[i].path) /\ Truthy(apiSpecs[i].method)

\* C8: when path() or operation() returns, the cursor equals its value before the
\* call in every field, the contents of its parameters list included.
C8_ScopeExitRestoresCursor ==
  [][ScopeExit =>
       View(currentApiSpec', paramHeap', respHeap') = scopeStack[Len(scopeStack)].before]_vars

Count(seq, x) == Cardinality({i \in 1..Len(seq) : seq[i] = x})

\* C9: a snapshot submitted by response() inside an operation carries the path of the
\* innermost enclosing path() and every parameter declared in an enclosing scope
\* before the operation was entered.
C9_SnapshotInheritsScope ==
  (lastSubmit.by = "response" /\ lastSubmit.op # 0) =>
    /\ lastSubmit.enclosingPath # Undefined
    /\ lastSubmit.spec.path = lastSubmit.enclosingPath
    /\ LET ps == ObjGet(lastSubmit.json, "parameters")
       IN \A p \in Params :
            Count(lastSubmit.enclosingParams, p) > 0 =>
              /\ ps.t = "arr"
              /\ Count(lastSubmit.enclosingParams, p) <= Count(ps.v, p)

\* response() has just submitted from an operation inside two nested path() scopes,
\* the outer of which declared a parameter
C9_Witness ==
  /\ lastSubmit.by = "response"
  /\ lastSubmit.op # 0
  /\ lastSubmit.op = CurrentOp
  /\ lastSubmit.test = Len(tests)
  /\ lastSubmit.enclosingParams # <<>>
  /\ Len(scopeStack) = 3
  /\ scopeStack[1].kind = "path" /\ scopeStack[1].declaredParams # <<>>
  /\ scopeStack[2].kind = "path" /\ scopeStack[2].arg # scopeStack[1].arg
  /\ lastSubmit.spec.path = JStr(scopeStack[2].arg)

\* C10: a later DSL call never changes the contents of a snapshot that the collection
\* already stores.
C10_StoredSnapshotImmutable ==
  [][\A i \in 1..Len(apiSpecs) :
       (i <= Len(apiSpecs') /\ apiSpecs'[i].oid = apiSpecs[i].oid) =>
         SpecJson(apiSpecs'[i], paramHeap') = SpecJson(apiSpecs[i], paramHeap)]_vars

\* C14: after clearApiSpecs the collection and the dedup index are empty, no save is
\* pending and the spec file is absent; a spec submitted next under a key seen before
\* the reset is appended as a new entry.
C14_ClearResets ==
  /\ lastSubmit.by = "clear" =>
       /\ apiSpecs = <<>>
       /\ DOMAIN specCache = {}
       /\ ~saveTimeout
       /\ specsFile = NoFile
  /\ (lastSubmit.by = "api" /\ lastSubmit.cleared.by = "clear"
        /\ getSpecKey(lastSubmit.spec) \in lastSubmit.cleared.seen) =>
       /\ Len(apiSpecs) = 1
       /\ SpecJson(apiSpecs[1], paramHeap) = lastSubmit.json
       /\ DOMAIN specCache = {getSpecKey(lastSubmit.spec)}

\* a reset has removed a spec file and cancelled a pending save, and a key that was
\* in the index before it has been submitted right after it
C14_Witness ==
  /\ lastSubmit.by = "api"
  /\ lastSubmit.cleared.by = "clear"
  /\ lastSubmit.cleared.hadFile
  /\ lastSubmit.cleared.hadTimer
  /\ getSpecKey(lastSubmit.spec) \in lastSubmit.cleared.seen

\* the collection as generateDocument reads it
CollectionJson == [i \in 1..Len(apiSpecs) |-> SpecJson(apiSpecs[i], paramHeap)]

\* the document is the result of a call made on the collection as it is now
DocumentIsCurrent == document # NoDocument /\ hist.specs = CollectionJson

\* spec i is the last of the collection with its path and method
LastOfPair(i) ==
  \A j \in (i + 1)..Len(apiSpecs) :
    apiSpecs[j].path # apiSpecs[i].path \/ apiSpecs[j].method # apiSpecs[i].method

\* the operation of the document at the path and method of a spec
OperationAt(spec) ==
  EntryGet(EntryGet(document.paths, TemplateStr(spec.path)), TemplateStr(spec.method))

\* C15: a call of generateDocument on the collection the previous call saw returns
\* the document the previous call returned.
C15_GenerateTwiceSame ==
  (hist.prevDocument # NoDocument /\ hist.prevSpecs = hist.specs) =>
    document = hist.prevDocument

\* generateDocument ran on one collection, then twice on a different one
C15_Witness ==
  /\ hist.prevDocument # NoDocument
  /\ hist.prevSpecs = hist.specs
  /\ Len(hist.specs) > 0
  /\ documentCache # NoCache
  /\ document = hist.prevDocument

\* the response key of the k-th declaration (k = n + 1) of status code c and the key
\* the document shows it under
SuffixedKey(c, n) ==
  IF n = 0 THEN NumToChars(c) ELSE NumToChars(c) \o <<"-">> \o NumToChars(n)
RenderedKey(c, n) ==
  IF n = 0 THEN NumToChars(c)
  ELSE NumToChars(c) \o <<" ", "(">> \o NumToChars(n) \o <<")">>

\* C16: the document shows the response stored under c-n under "c (n)" and the one
\* stored under c under c, and the operation has as many responses as its spec.
C16_SuffixRendered ==
  DocumentIsCurrent =>
    \A i \in 1..Len(apiSpecs) :
      (LastOfPair(i) /\ Truthy(apiSpecs[i].responses)
        /\ Len(apiSpecs[i].responses.v) > 0) =>
        LET responses == apiSpecs[i].responses
            shown == OperationAt(apiSpecs[i]).responses
        IN /\ Len(shown.v) = Len(responses.v)
           /\ \A c \in StatusCodes, n \in 0..(MaxTests - 1) :
                ObjHas(responses, SuffixedKey(c, n)) =>
                  /\ ObjHas(shown, RenderedKey(c, n))
                  /\ ObjGet(shown, RenderedKey(c, n)) = ObjGet(responses, SuffixedKey(c, n))

\* the document shows an operation whose spec has the keys 200, 200-1 and 200-2
C16_Witness ==
  /\ DocumentIsCurrent
  /\ \E i \in 1..Len(apiSpecs) :
       /\ LastOfPair(i)
       /\ apiSpecs[i].responses = ThreeResponses
       /\ ObjHas(OperationAt(apiSpecs[i]).responses, <<"2", "0", "0", " ", "(", "2", ")">>)

\* C17: every operation of a generated document has at least one response; a spec
\* with a missing or empty responses object is shown with the default 200 "Success".
C17_AtLeastOneResponse ==
  /\ document # NoDocument =>
       \A p \in 1..Len(document.paths) :
         \A m \in 1..Len(document.paths[p].v) :
           Len(document.paths[p].v[m].v.responses.v) >= 1
  /\ DocumentIsCurrent =>
       \A i \in 1..Len(apiSpecs) :
         (LastOfPair(i) /\ apiSpecs[i].responses \in {Undefined, JNull, EmptyObj}) =>
           OperationAt(apiSpecs[i]).responses = DefaultResponses

\* the document shows a spec without responses and a spec with an empty responses object
C17_Witness ==
  /\ DocumentIsCurrent
  /\ \E i, j \in 1..Len(apiSpecs) :
       /\ LastOfPair(i) /\ apiSpecs[i].responses = Undefined
       /\ LastOfPair(j) /\ apiSpecs[j].responses = EmptyObj

\* C18: the document has one operation for every path and method of the collection
\* and no other, built from the last spec of the collection with that path and method.
C18_LastSpecWins ==
  DocumentIsCurrent =>
    /\ \A i \in 1..Len(apiSpecs) :
         /\ EntryHas(document.paths, TemplateStr(apiSpecs[i].path))
         /\ EntryHas(EntryGet(document.paths, TemplateStr(apiSpecs[i].path)),
                     TemplateStr(apiSpecs[i].method))
         /\ LastOfPair(i) => OperationAt(apiSpecs[i]) = Operation(apiSpecs[i])
    /\ \A p \in 1..Len(document.paths) :
         /\ \A q \in 1..Len(document.paths) :
              document.paths[q].k = document.paths[p].k => q = p
         /\ \A m \in 1..Len(document.paths[p].v) :
              /\ \A q \in 1..Len(document.paths[p].v) :
                   document.paths[p].v[q].k = document.paths[p].v[m].k => q = m
              /\ \E i \in 1..Len(apiSpecs) :
                   /\ TemplateStr(apiSpecs[i].path) = document.paths[p].k
                   /\ TemplateStr(apiSpecs[i].method) = document.paths[p].v[m].k

\* the collection has two specs of one path and method with different summaries and
\* a spec of another path
C18_Witness ==
  /\ DocumentIsCurrent
  /\ \E i, j, k \in 1..Len(apiSpecs) :
       /\ i < j
       /\ apiSpecs[i].path = apiSpecs[j].path /\ apiSpecs[i].method = apiSpecs[j].method
       /\ apiSpecs[i].summary # apiSpecs[j].summary
       /\ Operation(apiSpecs[i]) # Operation(apiSpecs[j])
       /\ apiSpecs[k].path # apiSpecs[i].path

\* the collection of the generation process as JSON.stringify sees it
CliCollectionJson ==
  [i \in 1..Len(cli.apiSpecs) |-> Serialize(SpecJson(cli.apiSpecs[i], cli.heap))]

\* C11: the list a generation process of the same working directory loads from the
\* spec file equals the collection the test process saved.
C11_SavedSpecsLoaded ==
  (cli.pc = "done" /\ cli.saved \notin {NoFile, Malformed}) =>
    /\ cli.imported
    /\ CliCollectionJson = cli.saved.v

\* clearApiSpecs, then addApiSpec of the first n elements of a list
RECURSIVE SubmitEach(_, _, _, _)
SubmitEach(a, list, heap, n) ==
  IF n = 0 THEN clearApiSpecs(a)
  ELSE addApiSpec(SubmitEach(a, list, heap, n - 1), list[n], heap)

\* C12: after the import of a saved list the accumulator is in the state that
\* clearApiSpecs and addApiSpec of every element in order lead to: the same
\* collection and a dedup index that has the key of every imported spec.
C12_ImportIsClearThenSubmit ==
  (cli.pc = "done" /\ cli.imported) =>
    LET list == [i \in 1..Len(cli.savedSpecs) |-> ParsedSpec(cli.savedSpecs[i], i)]
        submitted == SubmitEach(FreshAcc(cli.file), list, cli.heap, Len(list))
    IN /\ CliCollectionJson
           = [i \in 1..Len(submitted.apiSpecs) |->
                Serialize(SpecJson(submitted.apiSpecs[i], cli.heap))]
       /\ DOMAIN cli.specCache = DOMAIN submitted.specCache
       /\ \A i \in 1..Len(cli.apiSpecs) :
            getSpecKey(cli.apiSpecs[i]) \in DOMAIN cli.specCache

\* C13: a missing or malformed spec file counts as no specs: loadSpecsFromFile returns
\* an empty list without throwing, and the generate command ends without a document
\* and without a failure.
C13_MissingOrMalformedIsNoSpecs ==
  /\ specsFile \in {NoFile, Malformed} =>
       /\ ~loadSpecsFromFile(Acc, paramHeap).threw
       /\ loadSpecsFromFile(Acc, paramHeap).specs = <<>>
  /\ (cli.pc = "done" /\ cli.file \in {NoFile, Malformed}) =>
       /\ cli.exitCode = 0
       /\ ~cli.generateCalled
       /\ cli.outputFile = NoFile

\* C19: a generated document has a servers field exactly when at least one server
\* is configured.
C19_ServersOnlyWhenConfigured ==
  (cli.pc = "done" /\ cli.document # NoDocument) =>
    (cli.document.servers # Undefined <=> Len(cli.server) > 0)

\* C20: generate() on an unwritable output path rejects, and the command fails; when
\* generate() resolves, the output file holds the document it returns.
C20_WriteFailureSurfaced ==
  (cli.pc = "done" /\ cli.generateCalled) =>
    /\ ~cli.writable => (cli.rejected /\ cli.exitCode = 1 /\ cli.outputFile = NoFile)
    /\ ~cli.rejected => (cli.document # NoDocument /\ cli.outputFile = cli.document)

\* generate() was called with an output path that cannot be written
C20_Witness == cli.pc = "done" /\ cli.generateCalled /\ ~cli.writable

\* what an accumulator state retains: the collection and the index as JSON.stringify
\* sees them
RetainedJson(a, heap) ==
  [apiSpecs |-> [i \in 1..Len(a.apiSpecs) |-> SpecJson(a.apiSpecs[i], heap)],
   specCache |-> [k \in DOMAIN a.specCache |-> SpecJson(a.specCache[k], heap)]]

\* C25: from every state, addApiSpec of a spec twice leaves what addApiSpec of it once
\* leaves, and for two specs of one identity key the collection and the index after
\* both submissions are the same in either order.
C25_IdempotentCommutative ==
  \A s1 \in SampleSpecs :
    LET once == addApiSpec(Acc, s1, paramHeap)
    IN /\ RetainedJson(addApiSpec(once, s1, paramHeap), paramHeap)
            = RetainedJson(once, paramHeap)
       /\ \A s2 \in SampleSpecs :
            getSpecKey(s1) = getSpecKey(s2) =>
              RetainedJson(addApiSpec(once, s2, paramHeap), paramHeap)
                = RetainedJson(addApiSpec(addApiSpec(Acc, s2, paramHeap), s1, paramHeap),
                               paramHeap)

\* C26: with persistence enabled and no cleanup, whenever the collection differs from
\* the content of the spec file, a write follows that makes the file equal to the
\* collection.
C26_ChangeIsPersisted ==
  (Len(apiSpecs) > 0 /\ specsFile # FileContent(apiSpecs, paramHeap))
    ~> (specsFile = FileContent(apiSpecs, paramHeap))

C28_NoWriteAfterStop ==
  /\ [](isCleaningUp => (timers.save = 0 /\ ~saveTimeout))
  /\ [][(isCleaningUp /\ isCleaningUp') =>
          (specsFile' = specsFile \/ specsFile' = NoFile)]_vars
  /\ (isCleaningUp /\ Len(timers.cleanup) > 0) ~> (specsFile = NoFile \/ ~isCleaningUp)

\* the delete of a cleanup removed the file; the collection is not empty and
\* resumeFileWrites was not called
C28_Witness ==
  /\ lastSubmit.by = "cleanupDelete"
  /\ lastSubmit.removed
  /\ ~lastSubmit.resumed
  /\ isCleaningUp
  /\ Len(apiSpecs) > 0
  /\ specsFile = NoFile

\* C29: after cleanupTempSpecFile and resumeFileWrites a pending save is followed by
\* a write of the file, and the delete of the earlier cleanup does not remove a file
\* written after the resume.
C29_ResumedFileSurvives ==
  /\ [](lastSubmit.by = "cleanupDelete" => ~(lastSubmit.removed /\ lastSubmit.written))
  /\ (~isCleaningUp /\ timers.save > 0 /\ Len(apiSpecs) > 0)
       ~> (specsFile = FileContent(apiSpecs, paramHeap) \/ isCleaningUp)

\* C30: every key of the dedup index maps to an element of the collection and every
\* element of the collection is indexed under its key; a spec submitted under a key
\* that no element of the collection has is appended.
C30_IndexMatchesCollection ==
  /\ [](/\ \A k \in DOMAIN specCache :
             \E i \in 1..Len(apiSpecs) : apiSpecs[i].oid = specCache[k].oid
        /\ \A i \in 1..Len(apiSpecs) :
             /\ getSpecKey(apiSpecs[i]) \in DOMAIN specCache
             /\ specCache[getSpecKey(apiSpecs[i])].oid = apiSpecs[i].oid)
  /\ [][(lastSubmit'.by = "api" /\ lastSubmit' # lastSubmit
           /\ RetainedFor(getSpecKey(lastSubmit'.spec)) = {}) =>
          /\ Len(apiSpecs') = Len(apiSpecs) + 1
          /\ SpecJson(apiSpecs'[Len(apiSpecs')], paramHeap') = lastSubmit'.json]_vars

\* the callback and the captureResponse option of a response() call as the caller
\* gave them: a bare callback stands for {captureResponse: true}, and an options
\* object that does not specify captureResponse gets true
GivenCallback(t) ==
  IF t.arguments.options.t = "function" THEN t.arguments.options ELSE t.arguments.callback

GivenCapture(t) ==
  IF t.arguments.options.t = "function" THEN TRUE
  ELSE IF t.arguments.options.t = "obj" /\ ObjHas(t.arguments.options, "captureResponse")
  THEN Truthy(ObjGet(t.arguments.options, "captureResponse"))
  ELSE TRUE

\* C21: a test captures the result of its callback exactly when a callback was
\* given, captureResponse as the caller gave it (true when not specified, true for a
\* bare callback) is true and the result is an object; without a callback nothing is
\* captured.
C21_OptionsAsGiven ==
  [][testIdx' = testIdx + 1 =>
       LET t == tests[testIdx']
       IN (lastSubmit'.by = "capture" /\ lastSubmit'.test = testIdx') <=>
            /\ GivenCallback(t).t = "function"
            /\ GivenCapture(t)
            /\ Truthy(GivenCallback(t).result)
            /\ IsObjectType(GivenCallback(t).result)]_vars

\* the application/json content a spec has under a response key
ContentOf(spec, responseKey) ==
  ObjGet(ObjGet(ObjGet(spec.responses, responseKey), "content"), "application/json")

\* the entries of a headers value that are strings or numbers
SafeEntries(headers) ==
  IF headers.t = "obj"
  THEN {<<headers.v[i].k, headers.v[i].v>> :
          i \in {j \in 1..Len(headers.v) : headers.v[j].v.t \in {"str", "num"}}}
  ELSE IF headers.t = "arr"
  THEN {<<NumToChars(i - 1), headers.v[i]>> :
          i \in {j \in 1..Len(headers.v) : headers.v[j].t \in {"str", "num"}}}
  ELSE {}

\* is payload what the result of a callback is unwrapped to
Unwrapped(result, payload) ==
  LET defined(k) == ObjGet(result, k).t # "undefined"
  IN IF defined("body") THEN payload = ObjGet(result, "body")
     ELSE IF defined("data") THEN payload = ObjGet(result, "data")
     ELSE (defined("status") \/ defined("statusCode")) =>
            /\ payload.t = "obj"
            /\ [i \in 1..Len(payload.v) |-> payload.v[i].k] = <<"status", "data", "headers">>
            /\ ObjGet(payload, "status") \in {ObjGet(result, "status"),
                                               ObjGet(result, "statusCode")}
            /\ ObjGet(payload, "headers").t = "obj"
            /\ SafeEntries(ObjGet(payload, "headers")) = SafeEntries(ObjGet(result, "headers"))
            /\ Len(ObjGet(payload, "headers").v)
                 = Cardinality(SafeEntries(ObjGet(result, "headers")))

\* C23: when a test captures the result of its callback, the example stored in the
\* response content is the body of the result if defined, else its data if defined,
\* else for a result with status or statusCode an object {status, data, headers}
\* whose headers are the string and number entries of the result's headers; the
\* schema stored is the one inferred from that payload.
C23_UnwrappedByPriority ==
  [][(lastSubmit'.by = "capture" /\ testIdx' = testIdx + 1) =>
       LET t == tests[testIdx']
           content == ContentOf(lastSubmit'.spec, t.responseKey)
       IN /\ Unwrapped(t.testCallback.result, ObjGet(content, "example"))
          /\ ObjGet(content, "schema")
               = generateSchemaFromResponse(ObjGet(content, "example"), 0)]_vars

\* a result with both body and data has been captured, and one with a status only
C23_Witness ==
  /\ lastSubmit.by = "capture"
  /\ \E i \in 1..testIdx :
       /\ ObjHas(tests[i].testCallback.result, "body")
       /\ ObjHas(tests[i].testCallback.result, "data")
  /\ LET t == tests[lastSubmit.test]
     IN /\ ~ObjHas(t.testCallback.result, "body")
        /\ ~ObjHas(t.testCallback.result, "data")
        /\ Len(ObjGet(ContentOf(lastSubmit.spec, t.responseKey), "example").v) = 3
        /\ ObjGet(ObjGet(ContentOf(lastSubmit.spec, t.responseKey), "example"),
                  "headers").v # <<>>

\* does a string have a format
Matches(str, format) ==
  CASE format = "email" -> IsEmail(str)
    [] format = "uuid" -> IsUuid(str)
    [] format = "date" -> MatchesDate(str) /\ DateParses(str)
    [] format = "date-time" -> MatchesDateTime(str) /\ DateParses(str)
    [] format = "uri" -> IsUrl(str)
    [] format = "ipv4" -> IsIPv4(str)
    [] format = "ipv6" -> IsIPv6(str)

\* the first format of an order that a string has
FirstMatch(str, order) ==
  IF \E i \in 1..Len(order) : Matches(str, order[i])
  THEN order[CHOOSE i \in 1..Len(order) :
               Matches(str, order[i]) /\ \A k \in 1..(i - 1) : ~Matches(str, order[k])]
  ELSE "none"

SchemaFormat(schema) ==
  IF ObjHas(schema, "format") THEN ObjGet(schema, "format").v ELSE "none"

\* the schema inferred for a captured string has the first format of the order that
\* the string has, and the string as example
FormatIsFirstOf(order) ==
  (lastSubmit'.by = "capture" /\ testIdx' = testIdx + 1) =>
    LET t == tests[testIdx']
        content == ContentOf(lastSubmit'.spec, t.responseKey)
        example == ObjGet(content, "example")
        schema == ObjGet(content, "schema")
    IN example.t = "str" =>
         /\ example = ObjGet(t.testCallback.result, "body")
         /\ ObjGet(schema, "type") = JStr("string")
         /\ ObjGet(schema, "example") = example
         /\ SchemaFormat(schema) = FirstMatch(example.v, order)
         /\ example.v = DateTimeSample => SchemaFormat(schema) = "date-time"
         /\ example.v = DateSample => SchemaFormat(schema) = "date"
         /\ example.v = EmailSample => SchemaFormat(schema) = "email"

\* C24 as stated: for a string value the inferred format is the first match in the
\* order email, date, date-time, URI, IPv4, IPv6, else none, and the string is the
\* example.
C24_FormatOrder ==
  [][FormatIsFirstOf(<<"email", "date", "date-time", "uri", "ipv4", "ipv6">>)]_vars

\* C24 amended: for a string value the inferred format is the first match in the
\* order email, UUID, date, date-time, URI, IPv4, IPv6, else none, and the string
\* is the example; "2024-01-01T00:00:00Z" infers date-time, "2024-01-01" date and
\* "john@example.com" email.
C24_FormatOrderWithUuid ==
  [][FormatIsFirstOf(<<"email", "uuid", "date", "date-time", "uri", "ipv4", "ipv6">>)]_vars

\* a URL with credentials has been captured as an email after a UUID was captured
C24_Witness ==
  /\ testIdx = 2
  /\ lastSubmit.by = "capture"
  /\ lastSubmit.test = 2
  /\ ObjGet(tests[1].testCallback.result, "body").v = UuidSample
  /\ ObjGet(tests[2].testCallback.result, "body").v = UrlWithUserSample
  /\ SchemaFormat(ObjGet(ContentOf(lastSubmit.spec, tests[2].responseKey), "schema"))
       = "email"

\* does a schema report the value it was inferred from as the claim says: what lies
\* deeper than MaxSchemaDepth as "Maximum depth reached", and a reference to an
\* object on the path from the root as "Circular reference detected"
RECURSIVE Reports(_, _, _, _)
Reports(schema, data, path, depth) ==
  IF depth > MaxSchemaDepth THEN schema = MaxDepthSchema
  ELSE IF data.t = "ref" /\ data.id \in path
  THEN schema = CircularSchema(IF Deref(data).t = "arr" THEN "array" ELSE "object")
  ELSE IF Deref(data).t = "arr"
  THEN /\ ObjGet(schema, "type") = JStr("array")
       /\ Len(Deref(data).v) > 0 =>
            Reports(ObjGet(schema, "items"), Deref(data).v[1],
                    path \cup Identity(data), depth + 1)
  ELSE IF Deref(data).t = "obj"
  THEN /\ ObjGet(schema, "type") = JStr("object")
       /\ ObjGet(schema, "properties").t = "obj"
       /\ \A i \in 1..Min(Len(Deref(data).v), MaxSchemaKeys) :
            LET f == Deref(data).v[i]
            IN /\ ObjHas(ObjGet(schema, "properties"), f.k)
               /\ Reports(ObjGet(ObjGet(schema, "properties"), f.k), f.v,
                          path \cup Identity(data), depth + 1)
  ELSE TRUE

\* C22: schema inference returns for every value, with cycles or deeper than the
\* depth limit; in the schema a field that points back to an object on the current
\* inference path has the description "Circular reference detected", and what lies
\* beyond depth 10 has "Maximum depth reached".
C22_CyclesAndDepthReported ==
  lastSubmit.by = "infer" =>
    /\ lastSubmit.schema.t = "obj"
    /\ Reports(lastSubmit.schema, lastSubmit.data, {}, 0)

\* the identity keys of a collection, in its order
KeysOf(list) == [i \in 1..Len(list) |-> getSpecKey(list[i])]

C32_CacheTransparent ==
  [][hist' # hist => document' = BuildDocument(apiSpecs', GeneratorConfig)]_vars

\* generateDocument has found in documentCache a collection of the same length as
\* the current one and with other specs, and has returned a new document
C32_Witness ==
  /\ hist.prevDocument # NoDocument
  /\ Len(hist.prevSpecs) = Len(hist.specs)
  /\ Len(hist.specs) > 0
  /\ hist.prevSpecs # hist.specs
  /\ hist.specs = [i \in 1..Len(apiSpecs) |-> SpecJson(apiSpecs[i], paramHeap)]
  /\ document # hist.prevDocument
  /\ document = documentCache.document

\* C33: while enableFilePersistence is false no step writes the spec file, neither
\* the callback of a save timer that was pending when persistence was disabled nor
\* a call of saveSpecsToFile; a spec submitted under a new key is still appended.
C33_NoWriteWhileDisabled ==
  /\ [][~enableFilePersistence => specsFile' \in {specsFile, NoFile}]_vars
  /\ [][(~enableFilePersistence /\ lastSubmit'.by = "api"
         /\ \A i \in 1..Len(apiSpecs) :
              getSpecKey(apiSpecs[i]) # getSpecKey(lastSubmit'.spec))
        => /\ KeysOf(apiSpecs') = Append(KeysOf(apiSpecs), getSpecKey(lastSubmit'.spec))
           /\ timers' = timers]_vars

\* persistence was disabled while a save timer was pending and no file was there;
\* the timer has fired since, and the collection is not empty
C33_Witness ==
  /\ lastSubmit.by = "disable"
  /\ lastSubmit.hadTimer
  /\ lastSubmit.file = NoFile
  /\ ~enableFilePersistence
  /\ ~isCleaningUp
  /\ timers.save = 0
  /\ Len(apiSpecs) > 0
  /\ specsFile = NoFile

\* has a value, at any depth, no property with a name of DANGEROUS_KEYS or with a
\* name that starts with an underscore
RECURSIVE IsSanitized(_)
IsSanitized(value) ==
  CASE value.t = "arr" -> \A i \in 1..Len(value.v) : IsSanitized(value.v[i])
    [] value.t = "obj" ->
         \A i \in 1..Len(value.v) :
           /\ value.v[i].k \notin DANGEROUS_KEYS
           /\ ~StartsWithUnderscore(value.v[i].k)
           /\ IsSanitized(value.v[i].v)
    [] OTHER -> TRUE

\* C34: for every shape of captured result, the value that is stored as the example
\* of the response, and from which the schema is inferred, has at no depth a
\* property named req, request, socket, connection, agent, xhr, res, response,
\* client or parser, or a property whose name starts with an underscore.
C34_ExampleSanitized ==
  [][(lastSubmit'.by = "capture" /\ testIdx' = testIdx + 1) =>
       LET content == ContentOf(lastSubmit'.spec, tests[testIdx'].responseKey)
       IN /\ IsSanitized(ObjGet(content, "example"))
          /\ ObjGet(content, "schema")
               = generateSchemaFromResponse(ObjGet(content, "example"), 0)]_vars

\* C35: a call of schema inference does not throw; in the schema of an object a
\* property whose read or whose inference throws has the schema {type: string,
\* description: "Processing failed"}, and every other property has the schema that
\* is inferred from its value.
C35_FailedPropertyStubbed ==
  lastSubmit.by = "infer" =>
    /\ ~lastSubmit.threw
    /\ lastSubmit.data.t = "obj" =>
         /\ ObjGet(lastSubmit.schema, "properties").t = "obj"
         /\ \A i \in 1..Len(lastSubmit.data.v) :
              LET f == lastSubmit.data.v[i]
              IN ObjGet(ObjGet(lastSubmit.schema, "properties"), f.k)
                   = IF generateSchemaThrows(f.v, 1) THEN ProcessingFailedSchema
                     ELSE generateSchemaFromResponse(f.v, 1)

\* C36: the schema a call returns is the one a call with an empty schemaCache
\* returns for the same value, whatever the calls before it have inferred.
C36_SchemaOfValueOnly ==
  lastSubmit.by = "inferShared" =>
    lastSubmit.schema = generateSchemaFromResponse(lastSubmit.data, 0)

\* the names of a tags value
TagNames(tagsValue) ==
  IF tagsValue.t = "arr" THEN [i \in 1..Len(tagsValue.v) |-> tagsValue.v[i].v] ELSE <<>>

\* C37: a tags() call inside an operation adds its names after the names the
\* operation has from the tags() calls before it, and a response() call submits a
\* snapshot with the tags of the operation: the snapshot carries the names of all
\* tags() calls of the operation in call order.
C37_TagsAccumulate ==
  /\ [][(Len(scopeStack) = 2 /\ scopeStack' = scopeStack /\ tests' = tests
         /\ nCalls' = nCalls + 1)
        => \E names \in OperationTagLists :
             TagNames(currentApiSpec'.tags) = TagNames(currentApiSpec.tags) \o names]_vars
  /\ [][(lastSubmit' # lastSubmit /\ lastSubmit'.by = "response")
        => TagNames(lastSubmit'.spec.tags) = TagNames(currentApiSpec.tags)]_vars

====
